---- MODULE Spec2Model ----
(***************************************************************************)
(* Model of the vehicle-communication core of QGroundControl: the UAS      *)
(* object (src/unnamed/part_001, UAS.cc), i.e. UAS::receiveMessage, the    *)
(* periodic UAS::updateState, the time reconciliation and the image        *)
(* transfer; and of the joystick calibration state machine                 *)
(* (src/src/VehicleSetup/JoystickConfigController.h).                      *)
(*                                                                         *)
(* Representation.  The fields of the UAS object are the fields of the     *)
(* record `uas'.  A method is an operator from the object (and its         *)
(* arguments) to a record [u |-> the object afterwards, out |-> the        *)
(* signals emitted, in order]; the actions apply these operators.          *)
(* Floating point quantities are kept in the integer unit of the wire      *)
(* format (millivolts, centimetres per second, degrees, 1e-7 degrees).     *)
(* Times are quint64 in the source; TLC integers are 32 bit, so the ground *)
(* clock counts milliseconds from an origin shortly before the program     *)
(* starts and the 40 year threshold is scaled accordingly (see            *)
(* FortyYearsUsec).                                                        *)
(***************************************************************************)
EXTENDS Integers, Sequences, FiniteSets, TLC

VARIABLES
    uas,              \* the fields of the UAS object
    now,              \* QGC::groundTimeMilliseconds()
    statusTimeoutAt,  \* ground time at which the statusTimeout timer is next due
    emitted,          \* the signals emitted by the last step, in order
    last,             \* the operation the last step performed, with its message
    imgClean,         \* history: imageRecBuffer was empty when the last handshake was handled
    imgHist,          \* history: the data chunks written since the last handshake
    hbSeen,           \* history: a heartbeat has been accepted
    hbRegular,        \* history: no gap between accepted heartbeats above HeartbeatPeriodMs
    budget,           \* messages, calls and calibration events the bounded specifications may still handle
    timeCall,         \* history: the last call of getUnixTime or getUnixReferenceTime
    cal,              \* the fields of the JoystickConfigController object
    sent,             \* the messages the last outbound call handed to Vehicle::sendMessage
    manual,           \* the function statics of UAS::setExternalControlSetpoint
    txHist,           \* history: calls of setExternalControlSetpoint since it last transmitted
    hbAny             \* history: the heartbeats of the bound vehicle handled, from any component

vars == <<uas, now, statusTimeoutAt, emitted, last, imgClean, imgHist, hbSeen, hbRegular,
          budget, timeCall, cal, sent, manual, txHist, hbAny>>

(***************************************************************************)
(* Bounds of the model.                                                    *)
(***************************************************************************)
MaxTicks == 14        \* the ground clock advances at most this many times
MaxImagePackets == 2  \* largest packet count a handshake announces
MaxImagePayload == 2  \* largest payload size a handshake announces
MaxImageSize == 4     \* largest total size a handshake announces
MaxSeqnr == 2         \* largest sequence number of a data chunk
MaxMessages == 3      \* messages and calls handled in one behaviour of SpecDispatch, SpecTime, SpecBattery
MaxElapses == 3       \* the ground clock advances by a long interval at most this many times
MaxCalEvents == 2     \* calibrations started and samples of axes not asked for, together

(***************************************************************************)
(* Constants of the program and of the MAVLink wire format.                *)
(***************************************************************************)
MAVLINK_MSG_ID_HEARTBEAT == 0
MAVLINK_MSG_ID_SYS_STATUS == 1
MAVLINK_MSG_ID_GPS_RAW_INT == 24
MAVLINK_MSG_ID_ATTITUDE == 30
MAVLINK_MSG_ID_LOCAL_POSITION_NED == 32
MAVLINK_MSG_ID_GLOBAL_POSITION_INT == 33
MAVLINK_MSG_ID_VFR_HUD == 74
MAVLINK_MSG_ID_DATA_TRANSMISSION_HANDSHAKE == 130
MAVLINK_MSG_ID_ENCAPSULATED_DATA == 131
MAVLINK_MSG_ID_RAW_IMU == 27
MAV_CMD_PREFLIGHT_CALIBRATION == 241
MAVLINK_MSG_ID_COMMAND_ACK == 77
MAVLINK_MSG_ID_ATTITUDE_TARGET == 83
MAV_RESULT_ACCEPTED == 0
MAV_RESULT_FAILED == 4
MAVLINK_MSG_ID_ATTITUDE_QUATERNION == 31

MAV_COMP_ID_IMU_2 == 201
MAV_TYPE_GENERIC == 0
MAV_TYPE_QUADROTOR == 2
MAV_TYPE_ENUM_END == 28
MAV_STATE_UNINIT == 0
MAV_STATE_STANDBY == 3
MAV_STATE_CRITICAL == 5
MAV_STATE_EMERGENCY == 6
UINT16_MAX == 65535
UAS_DEFAULT_BATTERY_WARNLEVEL == 20

\* 1261440000000000 in the source (40 years of microseconds).  Scaled by
\* 10^-6 to fit TLC's integers; what matters is the three classes of raw
\* timestamps: 0, below the threshold, at or above it.
FortyYearsUsec == 1261440000
\* `time < (lastNonNullTime - 100)': the backward slack, in raw units
BackwardSlack == 100
\* statusTimeout.start(500): period of the updateState timer, milliseconds
StatusTimeoutMs == 500
\* UAS::timeoutIntervalHeartbeat, microseconds (500 ms)
timeoutIntervalHeartbeat == 500000
\* `> 20000000': cooldown of the tick voltage alert, microseconds
VoltageWarningCooldownUsec == 20000000

\* Ground clock reading when the UAS object is constructed, milliseconds
StartTime == 2000000
\* step of the ground clock in the model, milliseconds
TickMs == 100
\* a long interval of the ground clock in the model, milliseconds
ElapseMs == 10000
\* a float that is NaN (airSpeed and groundSpeed start as quiet_NaN)
NaN == -2147483647
\* a float that is infinite
Infinity == 2147483647
\* a byte of a QByteArray that a resize left uninitialised
UninitByte == -1

\* quint64 subtraction a - b: a negative difference wraps to a value near
\* 2^64, larger than anything it is compared with; MaxU64 stands for it.
MaxU64 == 2147483647
Sub64(a, b) == IF a >= b THEN a - b ELSE MaxU64

Max(a, b) == IF a >= b THEN a ELSE b

\* number of occurrences of signal s in the sequence of signals out
Count(out, s) == Cardinality({i \in 1..Len(out) : out[i] = s})

(***************************************************************************)
(* The message types the model handles and the components that send.       *)
(***************************************************************************)
MsgIds == {MAVLINK_MSG_ID_HEARTBEAT, MAVLINK_MSG_ID_SYS_STATUS,
           MAVLINK_MSG_ID_GPS_RAW_INT, MAVLINK_MSG_ID_ATTITUDE,
           MAVLINK_MSG_ID_LOCAL_POSITION_NED, MAVLINK_MSG_ID_GLOBAL_POSITION_INT,
           MAVLINK_MSG_ID_VFR_HUD, MAVLINK_MSG_ID_DATA_TRANSMISSION_HANDSHAKE,
           MAVLINK_MSG_ID_ENCAPSULATED_DATA, MAVLINK_MSG_ID_RAW_IMU,
           MAVLINK_MSG_ID_ATTITUDE_QUATERNION, MAVLINK_MSG_ID_COMMAND_ACK,
           MAVLINK_MSG_ID_ATTITUDE_TARGET, 220, 221}

\* the types under `// Messages to ignore' that the model delivers
IgnoredMsgIds == {MAVLINK_MSG_ID_RAW_IMU}

\* two types that no case of the switch names
UnknownMsgIds == MsgIds \ ({MAVLINK_MSG_ID_HEARTBEAT, MAVLINK_MSG_ID_SYS_STATUS,
                            MAVLINK_MSG_ID_GPS_RAW_INT, MAVLINK_MSG_ID_ATTITUDE,
                            MAVLINK_MSG_ID_LOCAL_POSITION_NED,
                            MAVLINK_MSG_ID_GLOBAL_POSITION_INT, MAVLINK_MSG_ID_VFR_HUD,
                            MAVLINK_MSG_ID_DATA_TRANSMISSION_HANDSHAKE,
                            MAVLINK_MSG_ID_ENCAPSULATED_DATA,
                            MAVLINK_MSG_ID_ATTITUDE_QUATERNION,
                            MAVLINK_MSG_ID_COMMAND_ACK,
                            MAVLINK_MSG_ID_ATTITUDE_TARGET} \cup IgnoredMsgIds)

\* the message types that update the vehicle state
StateMsgIds == {MAVLINK_MSG_ID_HEARTBEAT, MAVLINK_MSG_ID_SYS_STATUS,
                MAVLINK_MSG_ID_GPS_RAW_INT, MAVLINK_MSG_ID_ATTITUDE,
                MAVLINK_MSG_ID_LOCAL_POSITION_NED,
                MAVLINK_MSG_ID_GLOBAL_POSITION_INT, MAVLINK_MSG_ID_VFR_HUD}

\* system id of the vehicle the UAS object is bound to (vehicle->id())
BoundSysId == 1
\* system id of another vehicle on the link
OtherSysId == 2

\* QGC::groundTimeUsecs()
groundTimeUsecs(t) == t * 1000

(***************************************************************************)
(* UAS::UAS: the object after construction.  lastHeartbeat has no          *)
(* initialiser in the constructor: its first value is whatever the memory  *)
(* held, given as the parameter lh.                                        *)
(***************************************************************************)
UASInit(lh) ==
    [ uasId |-> BoundSysId,
      components |-> {},
      componentID |-> [i \in MsgIds |-> -1],
      componentMulti |-> [i \in MsgIds |-> FALSE],
      unknownPackets |-> <<>>,
      type |-> MAV_TYPE_GENERIC,
      airframe |-> "GENERIC",
      autopilot |-> 12,
      base_mode |-> 0,
      custom_mode |-> 0,
      status |-> -1,
      startVoltage |-> -1000,
      tickVoltage |-> 10500,
      lastTickVoltageValue |-> 13000,
      tickLowpassVoltage |-> 12000,
      warnLevelPercent |-> UAS_DEFAULT_BATTERY_WARNLEVEL,
      currentVoltage |-> 12600,
      lpVoltage |-> -1000,
      currentCurrent |-> 40,
      chargeLevel |-> -1,
      lowBattAlarm |-> FALSE,
      onboardTimeOffset |-> 0,
      positionLock |-> FALSE,
      isLocalPositionKnown |-> FALSE,
      isGlobalPositionKnown |-> FALSE,
      localX |-> 0, localY |-> 0, localZ |-> 0,
      latitude |-> 0, longitude |-> 0,
      altitudeAMSL |-> 0, altitudeWGS84 |-> 0, altitudeRelative |-> 0,
      globalEstimatorActive |-> FALSE,
      latitude_gps |-> 0, longitude_gps |-> 0, altitude_gps |-> 0,
      speedX |-> 0, speedY |-> 0, speedZ |-> 0,
      airSpeed |-> NaN,
      groundSpeed |-> NaN,
      satelliteCount |-> 0,
      attitudeKnown |-> FALSE,
      attitudeStamped |-> FALSE,
      lastAttitude |-> 0,
      roll |-> 0, pitch |-> 0, yaw |-> 0,
      imageSize |-> 0,
      imagePackets |-> 0,
      imagePayload |-> 0,
      imagePacketsArrived |-> 0,
      imageRecBuffer |-> <<>>,
      receivedMode |-> FALSE,
      connectionLost |-> FALSE,
      connectionLossTime |-> 0,
      lastHeartbeat |-> lh,
      lastVoltageWarning |-> 0,
      lastNonNullTime |-> 0,
      vehicle |-> TRUE ]

\* the object constructed without a vehicle: _vehicle is null
Detached(u) == [u EXCEPT !.vehicle = FALSE]

(***************************************************************************)
(* Time reconciliation.                                                    *)
(***************************************************************************)
\* UAS::getUnixReferenceTime: as getUnixTime, without the backward-jump rule
getUnixReferenceTime(u, time, t) ==
    IF time = 0 THEN [u |-> u, ret |-> t]
    ELSE IF time < FortyYearsUsec
    THEN IF u.onboardTimeOffset = 0
         THEN [u |-> [u EXCEPT !.onboardTimeOffset = t - (time \div 1000)],
               ret |-> (time \div 1000) + (t - (time \div 1000))]
         ELSE [u |-> u, ret |-> (time \div 1000) + u.onboardTimeOffset]
    ELSE [u |-> u, ret |-> time \div 1000]

\* `onboardTimeOffset == 0 || time < (lastNonNullTime - 100)'
offsetStale(u, time) ==
    u.onboardTimeOffset = 0 \/ time < Sub64(u.lastNonNullTime, BackwardSlack)

\* reconcileOffset taking the raw timestamp for milliseconds
reconcileOffset_rawUnits(u, time, t) ==
    IF offsetStale(u, time)
    THEN [u EXCEPT !.lastNonNullTime = time,
                   !.onboardTimeOffset = t - time]
    ELSE [u EXCEPT !.lastNonNullTime = Max(@, time)]

\* the object after the branch `time < 1261440000000000' of getUnixTime
reconcileOffset(u, time, t) ==
    IF offsetStale(u, time)
    THEN [u EXCEPT !.lastNonNullTime = time,
                   !.onboardTimeOffset = t - (time \div 1000)]
    ELSE [u EXCEPT !.lastNonNullTime = Max(@, time)]

\* getUnixTime without the test for the raw timestamp 0
getUnixTime_noSentinel(u, time, t) ==
    IF time < FortyYearsUsec
    THEN [u |-> reconcileOffset(u, time, t),
          ret |-> (time \div 1000) + reconcileOffset(u, time, t).onboardTimeOffset]
    ELSE [u |-> u, ret |-> time \div 1000]

\* UAS::getUnixTime.  The value taken from lastAttitude when attitudeStamped
\* is set is overwritten by every branch of the if/else chain that follows.
getUnixTime(u, time, t) ==
    IF time = 0 THEN [u |-> u, ret |-> t]
    ELSE IF time < FortyYearsUsec
    THEN [u |-> reconcileOffset(u, time, t),
          ret |-> (time \div 1000) + reconcileOffset(u, time, t).onboardTimeOffset]
    ELSE [u |-> u, ret |-> time \div 1000]

(***************************************************************************)
(* A method's result is a record r with r.u the object and r.out the       *)
(* signals emitted so far; the statements of a method are applied to it    *)
(* one after the other.                                                    *)
(***************************************************************************)
Result(u) == [u |-> u, out |-> <<>>]

Emit(r, signals) == [r EXCEPT !.out = @ \o signals]

(***************************************************************************)
(* UAS::updateState, the slot of the statusTimeout timer.                  *)
(***************************************************************************)
\* checkTimedOut with the timeout taken for milliseconds
checkTimedOut_millis(r, heartbeatInterval) ==
    IF ~r.u.connectionLost /\ heartbeatInterval > timeoutIntervalHeartbeat \div 1000
    THEN [u |-> [r.u EXCEPT !.connectionLost = TRUE, !.receivedMode = FALSE],
          out |-> r.out \o <<"say: link lost">>]
    ELSE r

\* `// Check if heartbeat timed out'
checkTimedOut(r, heartbeatInterval) ==
    IF ~r.u.connectionLost /\ heartbeatInterval > timeoutIntervalHeartbeat
    THEN [u |-> [r.u EXCEPT !.connectionLost = TRUE, !.receivedMode = FALSE],
          out |-> r.out \o <<"say: link lost">>]
    ELSE r

\* updateLossTime notifying only in the check that declared the loss
updateLossTime_onTransition(r, heartbeatInterval) ==
    IF r.u.connectionLost /\ heartbeatInterval > timeoutIntervalHeartbeat
    THEN [u |-> [r.u EXCEPT !.connectionLossTime = heartbeatInterval],
          out |-> r.out \o (IF Count(r.out, "say: link lost") > 0
                            THEN <<"heartbeatTimeout(true)">> ELSE <<>>)]
    ELSE r

\* `// Update connection loss time on each iteration'
updateLossTime(r, heartbeatInterval) ==
    IF r.u.connectionLost /\ heartbeatInterval > timeoutIntervalHeartbeat
    THEN [u |-> [r.u EXCEPT !.connectionLossTime = heartbeatInterval],
          out |-> r.out \o <<"heartbeatTimeout(true)">>]
    ELSE r

\* connectionGained without the test of connectionLost
connectionGained_untested(r, heartbeatInterval) ==
    IF heartbeatInterval < timeoutIntervalHeartbeat
    THEN [u |-> [r.u EXCEPT !.connectionLost = FALSE, !.connectionLossTime = 0],
          out |-> r.out \o <<"say: link regained", "heartbeatTimeout(false)">>]
    ELSE r

\* `// Connection gained'
connectionGained(r, heartbeatInterval) ==
    IF r.u.connectionLost /\ heartbeatInterval < timeoutIntervalHeartbeat
    THEN [u |-> [r.u EXCEPT !.connectionLost = FALSE, !.connectionLossTime = 0],
          out |-> r.out \o <<"say: link regained", "heartbeatTimeout(false)">>]
    ELSE r

\* `if (positionLock) positionLock = false'
clearPositionLock(r) ==
    IF r.u.positionLock THEN [r EXCEPT !.u.positionLock = FALSE] ELSE r

\* heartbeatInterval = QGC::groundTimeUsecs() - lastHeartbeat
heartbeatInterval(u, t) == Sub64(groundTimeUsecs(t), u.lastHeartbeat)

updateState(u, t) ==
    clearPositionLock(
        connectionGained(
            updateLossTime(
                checkTimedOut(Result(u), heartbeatInterval(u, t)),
                heartbeatInterval(u, t)),
            heartbeatInterval(u, t)))

(***************************************************************************)
(* UAS::receiveMessage, case by case.  Every case is given the object      *)
(* after the ownership resolution, the message m, the ground clock t and   *)
(* the two flags wrongComponent and multiComponentSourceDetected.          *)
(***************************************************************************)
\* UAS::setSystemType
setSystemType(r, systemType) ==
    IF systemType >= MAV_TYPE_GENERIC /\ systemType < MAV_TYPE_ENUM_END
    THEN [u |-> [r.u EXCEPT !.type = systemType,
                            !.airframe = IF @ = "GENERIC" /\ systemType = MAV_TYPE_QUADROTOR
                                         THEN "CHEETAH" ELSE @],
          out |-> r.out \o <<"systemSpecsChanged", "systemTypeSet">>]
    ELSE r

\* `// Set new type if it has changed'
heartbeatType(r, state) ==
    IF r.u.type # state.type
    THEN setSystemType([r EXCEPT !.u.autopilot = state.autopilot], state.type)
    ELSE r

\* `statechanged': the reported status differs from the stored one
statechanged(u, state) ==
    state.system_status # u.status /\ state.system_status # MAV_STATE_UNINIT

\* `modechanged': the reported mode differs from the stored one
modechanged(u, state) ==
    u.base_mode # state.base_mode \/ u.custom_mode # state.custom_mode

\* the status and mode updates, `receivedMode = true' and the audio output
heartbeatStatusMode(r, state) ==
    [u |-> [r.u EXCEPT !.status = IF statechanged(r.u, state) THEN state.system_status ELSE @,
                       !.base_mode = state.base_mode,
                       !.custom_mode = state.custom_mode,
                       !.receivedMode = TRUE],
     out |-> r.out
             \o (IF statechanged(r.u, state)
                 THEN <<"statusChanged", "statusChanged">> ELSE <<>>)
             \o (IF statechanged(r.u, state)
                    /\ state.system_status \in {MAV_STATE_CRITICAL, MAV_STATE_EMERGENCY}
                 THEN <<"say: emergency">>
                 ELSE IF modechanged(r.u, state) \/ statechanged(r.u, state)
                      THEN <<"say: mode">> ELSE <<>>)]

\* `lastHeartbeat = QGC::groundTimeUsecs(); emit heartbeat(this)' and the
\* three valueChanged signals
heartbeatSeen(u, t) ==
    [u |-> [u EXCEPT !.lastHeartbeat = groundTimeUsecs(t)],
     out |-> <<"heartbeat", "valueChanged", "valueChanged", "valueChanged">>]

\* case MAVLINK_MSG_ID_HEARTBEAT
case_HEARTBEAT(u, m, t, wrongComponent, multiComponentSourceDetected) ==
    IF multiComponentSourceDetected /\ wrongComponent
    THEN Result(u)
    ELSE heartbeatStatusMode(heartbeatType(heartbeatSeen(u, t), m.p), m.p)

\* UAS::filterVoltage (millivolts)
filterVoltage(u, value) ==
    [u EXCEPT !.lpVoltage = ((IF @ < 0 THEN value ELSE @) * 6 + value * 4) \div 10]

\* UAS::startLowBattAlarm
startLowBattAlarm(r) ==
    IF ~r.u.lowBattAlarm
    THEN [u |-> [r.u EXCEPT !.lowBattAlarm = TRUE], out |-> r.out \o <<"say: low battery">>]
    ELSE r

\* UAS::stopLowBattAlarm
stopLowBattAlarm(r) ==
    IF r.u.lowBattAlarm THEN [r EXCEPT !.u.lowBattAlarm = FALSE] ELSE r

Abs(x) == IF x >= 0 THEN x ELSE -x

\* currentVoltage, the low-pass filter and the tick tracker
trackVoltage(u, voltage_battery) ==
    [filterVoltage(u, voltage_battery)
        EXCEPT !.currentVoltage = voltage_battery,
               !.tickLowpassVoltage = (@ * 8 + 2 * voltage_battery) \div 10]

\* `// We don't want to tick above the threshold'
tickAbove(u) ==
    IF u.tickLowpassVoltage > u.tickVoltage
    THEN [u EXCEPT !.lastTickVoltageValue = u.tickLowpassVoltage]
    ELSE u

\* tickWarn without `warn only every 20 seconds'
tickWarn_noCooldown(u, t) ==
    /\ u.startVoltage > 0
    /\ u.tickLowpassVoltage < u.tickVoltage
    /\ Abs(u.lastTickVoltageValue - u.tickLowpassVoltage) > 100
    /\ u.lpVoltage < u.tickVoltage
    /\ u.currentVoltage > 3300
    /\ u.currentVoltage - 200 < u.tickVoltage

\* the condition of the low voltage alert
tickWarn(u, t) ==
    /\ u.startVoltage > 0
    /\ u.tickLowpassVoltage < u.tickVoltage
    /\ Abs(u.lastTickVoltageValue - u.tickLowpassVoltage) > 100
    /\ u.lpVoltage < u.tickVoltage
    /\ u.currentVoltage > 3300
    /\ u.currentVoltage - 200 < u.tickVoltage
    /\ Sub64(groundTimeUsecs(t), u.lastVoltageWarning) > VoltageWarningCooldownUsec

\* tickAlert that does not keep the tracker's value at the alert
tickAlert_noStore(r, t) ==
    IF tickWarn(r.u, t)
    THEN [u |-> [r.u EXCEPT !.lastVoltageWarning = groundTimeUsecs(t)],
          out |-> r.out \o <<"say: low voltage">>]
    ELSE r

\* the low voltage alert
tickAlert(r, t) ==
    IF tickWarn(r.u, t)
    THEN [u |-> [r.u EXCEPT !.lastVoltageWarning = groundTimeUsecs(t),
                            !.lastTickVoltageValue = r.u.tickLowpassVoltage],
          out |-> r.out \o <<"say: low voltage">>]
    ELSE r

\* startVoltage, chargeLevel and batteryChanged
chargeLevelUpdate(r, state) ==
    [u |-> [r.u EXCEPT !.startVoltage = IF @ = -1000 /\ r.u.currentVoltage > 100
                                        THEN r.u.currentVoltage ELSE @,
                       !.chargeLevel = state.battery_remaining],
     out |-> r.out \o <<"batteryChanged">>]

\* `if (state.voltage_battery > 0.0f && state.voltage_battery != UINT16_MAX)'
batteryVoltage(r, state, t) ==
    IF state.voltage_battery > 0 /\ state.voltage_battery # UINT16_MAX
    THEN chargeLevelUpdate(
             tickAlert([r EXCEPT !.u = tickAbove(trackVoltage(@, state.voltage_battery))], t),
             state)
    ELSE r

\* `// And if the battery current draw is measured, log that also.'
batteryCurrent(r, state) ==
    IF state.current_battery # -1
    THEN [u |-> [r.u EXCEPT !.currentCurrent = state.current_battery],
          out |-> r.out \o <<"valueChanged">>]
    ELSE r

\* `// LOW BATTERY ALARM'
lowBatteryAlarm(r) ==
    IF r.u.chargeLevel >= 0 /\ r.u.chargeLevel < r.u.warnLevelPercent
    THEN startLowBattAlarm(r)
    ELSE stopLowBattAlarm(r)

\* case MAVLINK_MSG_ID_SYS_STATUS
case_SYS_STATUS(u, m, t, wrongComponent, multiComponentSourceDetected) ==
    IF multiComponentSourceDetected /\ wrongComponent
    THEN Result(u)
    ELSE Emit(lowBatteryAlarm(
                  batteryCurrent(
                      Emit(batteryVoltage(
                               Emit(Result(u),
                                    <<"valueChanged", "valueChanged", "valueChanged",
                                      "valueChanged", "valueChanged", "valueChanged",
                                      "valueChanged", "loadChanged", "valueChanged">>),
                               m.p, t),
                           <<"valueChanged", "valueChanged">>),
                      m.p)),
              <<"attitudeControlEnabled", "positionYawControlEnabled",
                "positionZControlEnabled", "positionXYControlEnabled",
                "dropRateChanged", "valueChanged">>)

\* QGC::limitAngleToPMPIf / limitAngleToPMPId, in degrees: into (-180, 180]
limitAngleToPMPI(angle) == ((angle + 179) % 360) - 179

\* attitudeUpdate storing the angles as they come
attitudeUpdate_raw(tm, attitude) ==
    [u |-> [tm.u EXCEPT !.lastAttitude = tm.ret,
                        !.roll = attitude.roll,
                        !.pitch = attitude.pitch,
                        !.yaw = attitude.yaw,
                        !.attitudeKnown = TRUE],
     out |-> <<"attitudeChanged(compid)", "attitudeChanged", "attitudeRotationRatesChanged">>]

\* the block `if (!wrongComponent)' of the attitude case, tm the result of
\* getUnixReferenceTime
attitudeUpdate(tm, attitude) ==
    [u |-> [tm.u EXCEPT !.lastAttitude = tm.ret,
                        !.roll = limitAngleToPMPI(attitude.roll),
                        !.pitch = limitAngleToPMPI(attitude.pitch),
                        !.yaw = limitAngleToPMPI(attitude.yaw),
                        !.attitudeKnown = TRUE],
     out |-> <<"attitudeChanged(compid)", "attitudeChanged", "attitudeRotationRatesChanged">>]

\* case MAVLINK_MSG_ID_ATTITUDE
case_ATTITUDE(u, m, t, wrongComponent, multiComponentSourceDetected) ==
    IF ~wrongComponent
    THEN attitudeUpdate(getUnixReferenceTime(u, m.p.time_boot_ms, t), m.p)
    ELSE [u |-> getUnixReferenceTime(u, m.p.time_boot_ms, t).u,
          out |-> <<"attitudeChanged(compid)">>]

(***************************************************************************)
(* The attitude quaternion.  Angles are whole degrees; the components of   *)
(* the quaternion are whole multiples of 1/sqrt(2), so that the doubled    *)
(* entries of the direction cosine matrix are integers.                    *)
(***************************************************************************)
\* twice the direction cosine matrix of the quaternion <<a, b, c, d>>
dcm(q) ==
    <<<<q[1] * q[1] + q[2] * q[2] - q[3] * q[3] - q[4] * q[4],
        2 * (q[2] * q[3] - q[1] * q[4]),
        2 * (q[1] * q[3] + q[2] * q[4])>>,
      <<2 * (q[2] * q[3] + q[1] * q[4]),
        q[1] * q[1] - q[2] * q[2] + q[3] * q[3] - q[4] * q[4],
        2 * (q[3] * q[4] - q[1] * q[2])>>,
      <<2 * (q[2] * q[4] - q[1] * q[3]),
        2 * (q[1] * q[2] + q[3] * q[4]),
        q[1] * q[1] - q[2] * q[2] - q[3] * q[3] + q[4] * q[4]>>>>

\* asin of x2 / 2, in degrees; NaN outside [-1, 1]
asin(x2) ==
    CASE x2 = 0 -> 0
      [] x2 = 1 -> 30
      [] x2 = -1 -> -30
      [] x2 = 2 -> 90
      [] x2 = -2 -> -90
      [] OTHER -> NaN

\* atan2 in degrees, for arguments on an axis or a diagonal
atan2(y, x) ==
    CASE y = 0 /\ x >= 0 -> 0
      [] y = 0 /\ x < 0 -> 180
      [] x = 0 /\ y > 0 -> 90
      [] x = 0 /\ y < 0 -> -90
      [] Abs(y) = Abs(x) /\ x > 0 -> IF y > 0 THEN 45 ELSE -45
      [] Abs(y) = Abs(x) /\ x < 0 -> IF y > 0 THEN 135 ELSE -135

\* phi, theta, psi of the matrix d: the two branches of the gimbal lock near
\* plus and minus 90 degrees of pitch, and the general extraction
eulerAngles(d) ==
    IF asin(-d[3][1]) = 90 \/ asin(-d[3][1]) = -90
    THEN [phi |-> 0, theta |-> asin(-d[3][1]),
          psi |-> atan2(d[2][3] - d[1][2], d[1][3] + d[2][2])]
    ELSE [phi |-> atan2(d[3][2], d[3][3]), theta |-> asin(-d[3][1]),
          psi |-> atan2(d[2][1], d[1][1])]

\* case MAVLINK_MSG_ID_ATTITUDE_QUATERNION
case_ATTITUDE_QUATERNION(u, m, t, wrongComponent, multiComponentSourceDetected) ==
    IF ~wrongComponent
    THEN [u |-> [getUnixReferenceTime(u, m.p.time_boot_ms, t).u
                    EXCEPT !.lastAttitude = getUnixReferenceTime(u, m.p.time_boot_ms, t).ret,
                           !.roll = limitAngleToPMPI(eulerAngles(dcm(m.p.q)).phi),
                           !.pitch = limitAngleToPMPI(eulerAngles(dcm(m.p.q)).theta),
                           !.yaw = limitAngleToPMPI(eulerAngles(dcm(m.p.q)).psi),
                           !.attitudeKnown = TRUE],
          out |-> <<"attitudeChanged(compid)", "attitudeChanged",
                    "attitudeRotationRatesChanged">>]
    ELSE [u |-> getUnixReferenceTime(u, m.p.time_boot_ms, t).u,
          out |-> <<"attitudeChanged(compid)">>]

\* case MAVLINK_MSG_ID_VFR_HUD
\* case MAVLINK_MSG_ID_VFR_HUD without the test of attitudeKnown
case_VFR_HUD_always(u, m, t, wrongComponent, multiComponentSourceDetected) ==
    [u |-> [u EXCEPT !.yaw = limitAngleToPMPI(m.p.heading),
                     !.altitudeAMSL = m.p.alt,
                     !.groundSpeed = m.p.groundspeed,
                     !.airSpeed = IF m.p.airspeed # NaN THEN m.p.airspeed ELSE @,
                     !.speedZ = -m.p.climb],
     out |-> <<"thrustChanged", "attitudeChanged", "altitudeChanged", "speedChanged">>]

case_VFR_HUD(u, m, t, wrongComponent, multiComponentSourceDetected) ==
    [u |-> [u EXCEPT !.yaw = IF ~u.attitudeKnown THEN limitAngleToPMPI(m.p.heading) ELSE @,
                     !.altitudeAMSL = m.p.alt,
                     !.groundSpeed = m.p.groundspeed,
                     !.airSpeed = IF m.p.airspeed # NaN THEN m.p.airspeed ELSE @,
                     !.speedZ = -m.p.climb],
     out |-> <<"thrustChanged">>
             \o (IF ~u.attitudeKnown THEN <<"attitudeChanged">> ELSE <<>>)
             \o <<"altitudeChanged", "speedChanged">>]

\* the block `if (!wrongComponent)' of the local position case
localPositionUpdate(u, pos) ==
    [u |-> [u EXCEPT !.localX = pos.x, !.localY = pos.y, !.localZ = pos.z,
                     !.speedX = pos.vx, !.speedY = pos.vy, !.speedZ = pos.vz,
                     !.positionLock = TRUE,
                     !.isLocalPositionKnown = TRUE],
     out |-> <<"localPositionChanged(compid)", "localPositionChanged",
               "velocityChanged_NED">>]

\* case MAVLINK_MSG_ID_LOCAL_POSITION_NED
case_LOCAL_POSITION_NED(u, m, t, wrongComponent, multiComponentSourceDetected) ==
    IF ~wrongComponent
    THEN localPositionUpdate(getUnixTime(u, m.p.time_boot_ms, t).u, m.p)
    ELSE [u |-> getUnixTime(u, m.p.time_boot_ms, t).u,
          out |-> <<"localPositionChanged(compid)">>]

\* qSqrt on the integer grid: the largest r with r*r <= x
qSqrt(x) == CHOOSE r \in 0..(x + 1) : r * r <= x /\ (r + 1) * (r + 1) > x

\* case MAVLINK_MSG_ID_GLOBAL_POSITION_INT
case_GLOBAL_POSITION_INT(u, m, t, wrongComponent, multiComponentSourceDetected) ==
    [u |-> [u EXCEPT !.latitude = m.p.lat,
                     !.longitude = m.p.lon,
                     !.altitudeWGS84 = m.p.alt,
                     !.altitudeRelative = m.p.relative_alt,
                     !.globalEstimatorActive = TRUE,
                     !.speedX = m.p.vx, !.speedY = m.p.vy, !.speedZ = m.p.vz,
                     !.groundSpeed = qSqrt(m.p.vx * m.p.vx + m.p.vy * m.p.vy),
                     !.positionLock = TRUE,
                     !.isGlobalPositionKnown = TRUE],
     out |-> <<"globalPositionChanged", "altitudeChanged", "velocityChanged_NED",
               "speedChanged">>]

\* `// Smaller than threshold and not NaN': the ground speed of a raw GPS fix
gpsVelocity(r, pos) ==
    IF pos.vel < 100000000 /\ pos.vel # NaN
    THEN [u |-> [r.u EXCEPT !.groundSpeed = pos.vel], out |-> r.out \o <<"speedChanged">>]
    ELSE Emit(r, <<"textMessageReceived">>)

\* gpsFallback that uses the raw GPS values whatever the estimator flag
gpsFallback_always(r, pos) ==
    gpsVelocity([u |-> [r.u EXCEPT !.latitude = r.u.latitude_gps,
                                   !.longitude = r.u.longitude_gps,
                                   !.altitudeWGS84 = r.u.altitude_gps],
                 out |-> r.out \o <<"globalPositionChanged", "altitudeChanged">>],
                pos)

\* `// If no GLOBAL_POSITION_INT messages ever received, use these raw GPS values'
gpsFallback(r, pos) ==
    IF ~r.u.globalEstimatorActive
    THEN gpsVelocity([u |-> [r.u EXCEPT !.latitude = r.u.latitude_gps,
                                        !.longitude = r.u.longitude_gps,
                                        !.altitudeWGS84 = r.u.altitude_gps],
                      out |-> r.out \o <<"globalPositionChanged", "altitudeChanged">>],
                     pos)
    ELSE r

\* `if (pos.fix_type > 2)'
gpsFix(r, pos) ==
    IF pos.fix_type > 2
    THEN gpsFallback([r EXCEPT !.u.positionLock = TRUE,
                               !.u.isGlobalPositionKnown = TRUE,
                               !.u.latitude_gps = pos.lat,
                               !.u.longitude_gps = pos.lon,
                               !.u.altitude_gps = pos.alt],
                     pos)
    ELSE r

\* case MAVLINK_MSG_ID_GPS_RAW_INT
case_GPS_RAW_INT(u, m, t, wrongComponent, multiComponentSourceDetected) ==
    gpsFix([u |-> [getUnixTime(u, m.p.time_usec, t).u
                      EXCEPT !.satelliteCount = m.p.satellites_visible],
            out |-> <<"localizationChanged">>],
           m.p)

(***************************************************************************)
(* Image transfer.  imageRecBuffer is a QByteArray: an assignment through  *)
(* operator[] at an index at or beyond its size first grows the array to   *)
(* index + 1 bytes, the bytes in between being left uninitialised.         *)
(***************************************************************************)
\* imageRecBuffer[pos] = b (pos counts from 0, the sequence from 1)
SetByte(buf, pos, b) ==
    IF pos < Len(buf)
    THEN [buf EXCEPT ![pos + 1] = b]
    ELSE buf \o [k \in 1..(pos - Len(buf)) |-> UninitByte] \o <<b>>

\* the loop `for (int i = 0; i < imagePayload; ++i)' from iteration i on
RECURSIVE WritePayload(_, _, _, _, _, _)
WritePayload(buf, pos, data, i, imagePayload, imageSize) ==
    IF i >= imagePayload THEN buf
    ELSE WritePayload(IF pos <= imageSize THEN SetByte(buf, pos, data[i + 1]) ELSE buf,
                      pos + 1, data, i + 1, imagePayload, imageSize)

\* case MAVLINK_MSG_ID_DATA_TRANSMISSION_HANDSHAKE
case_DATA_TRANSMISSION_HANDSHAKE(u, m, t, wrongComponent, multiComponentSourceDetected) ==
    [u |-> [u EXCEPT !.imageSize = m.p.size,
                     !.imagePackets = m.p.packets,
                     !.imagePayload = m.p.payload,
                     !.imagePacketsArrived = 0],
     out |-> <<>>]

\* `// emit signal if all packets arrived'
imageComplete(u) ==
    IF u.imagePacketsArrived >= u.imagePackets
    THEN [u |-> [u EXCEPT !.imagePackets = 0, !.imagePacketsArrived = 0],
          out |-> <<"imageReady">>]
    ELSE Result(u)

\* case_ENCAPSULATED_DATA without the test for a transfer in progress
case_ENCAPSULATED_DATA_unchecked(u, m, t, wrongComponent, multiComponentSourceDetected) ==
    imageComplete(
        [u EXCEPT !.imageRecBuffer = WritePayload(@, m.p.seqnr * u.imagePayload,
                                                  m.p.data, 0, u.imagePayload,
                                                  u.imageSize),
                  !.imagePacketsArrived = @ + 1])

\* case MAVLINK_MSG_ID_ENCAPSULATED_DATA
case_ENCAPSULATED_DATA(u, m, t, wrongComponent, multiComponentSourceDetected) ==
    IF u.imagePackets = 0
    THEN Result([u EXCEPT !.imagePacketsArrived = 0])
    ELSE imageComplete(
             [u EXCEPT !.imageRecBuffer = WritePayload(@, m.p.seqnr * u.imagePayload,
                                                       m.p.data, 0, u.imagePayload,
                                                       u.imageSize),
                       !.imagePacketsArrived = @ + 1])

\* UAS::getImage: loaded tells whether the image could be built from the
\* buffer; when not, the method returns before it resets anything.
getImage(u, loaded) ==
    IF loaded
    THEN [u EXCEPT !.imagePacketsArrived = 0, !.imagePackets = 0, !.imageRecBuffer = <<>>]
    ELSE u

\* `// Messages to ignore': the cases that only break
case_ignored(u, m, t, wrongComponent, multiComponentSourceDetected) == Result(u)

\* default: appending the type at every arrival
case_default_append(u, m, t, wrongComponent, multiComponentSourceDetected) ==
    [u |-> [u EXCEPT !.unknownPackets = Append(@, m.msgid)], out |-> <<>>]

\* default: of the switch on the message id
case_default(u, m, t, wrongComponent, multiComponentSourceDetected) ==
    [u |-> IF \A i \in 1..Len(u.unknownPackets) : u.unknownPackets[i] # m.msgid
           THEN [u EXCEPT !.unknownPackets = Append(@, m.msgid)]
           ELSE u,
     out |-> <<>>]

\* UAS::getUnixTimeFromMs
getUnixTimeFromMs(u, time, t) == getUnixTime(u, time * 1000, t)

\* case MAVLINK_MSG_ID_ATTITUDE_TARGET, for the decoded message out
attitudeTarget(r, out, t) ==
    [u |-> getUnixTimeFromMs(r.u, out.time_boot_ms, t).u,
     out |-> r.out \o <<"attitudeThrustSetPointChanged", "valueChanged", "valueChanged",
                        "valueChanged">>]

case_ATTITUDE_TARGET(u, m, t, wrongComponent, multiComponentSourceDetected) ==
    attitudeTarget(Result(u), m.p, t)

\* the switch on ack.result: one text message for each of the five results
commandAck(u, ack) ==
    IF ack.result >= MAV_RESULT_ACCEPTED /\ ack.result <= MAV_RESULT_FAILED
    THEN [u |-> u, out |-> <<"textMessageReceived">>]
    ELSE Result(u)

\* mavlink_msg_attitude_target_decode on the payload of a COMMAND_ACK: the
\* first four bytes, time_boot_ms, are the command (two bytes), the result
\* and the byte that follows the payload, here 0
ackAsAttitudeTarget(ack) == [time_boot_ms |-> ack.command + 65536 * ack.result]

\* case MAVLINK_MSG_ID_COMMAND_ACK: no break ends the case, and the
\* statements of case MAVLINK_MSG_ID_ATTITUDE_TARGET follow
case_COMMAND_ACK(u, m, t, wrongComponent, multiComponentSourceDetected) ==
    attitudeTarget(commandAck(u, m.p), ackAsAttitudeTarget(m.p), t)

(***************************************************************************)
(* UAS::receiveMessage                                                     *)
(***************************************************************************)
\* `case MAV_COMP_ID_IMU_2: // Prefer IMU 2 over IMU 1 (FIXME)'
preferImu2(componentID, m) ==
    IF m.compid = MAV_COMP_ID_IMU_2
    THEN [componentID EXCEPT ![m.msgid] = MAV_COMP_ID_IMU_2]
    ELSE componentID

\* storeComponentID letting the last sender own the type
storeComponentID_lastSender(componentID, m) ==
    [componentID EXCEPT ![m.msgid] = m.compid]

\* `// Store component ID': the owner after the message
storeComponentID(componentID, m) ==
    IF componentID[m.msgid] = -1
    THEN [componentID EXCEPT ![m.msgid] = m.compid]
    ELSE componentID

\* wrongComponent: the type has an owner and it is not the sender
wrongComponent(componentID, m) ==
    componentID[m.msgid] # -1 /\ componentID[m.msgid] # m.compid

\* the ownership resolution: componentID and componentMulti after the message
resolveComponent(u, m) ==
    [u EXCEPT !.componentID = storeComponentID(preferImu2(@, m), m),
              !.componentMulti =
                  IF wrongComponent(preferImu2(u.componentID, m), m)
                  THEN [@ EXCEPT ![m.msgid] = TRUE] ELSE @]

\* the test `message.sysid == uasId && (!attitudeStamped || ...)'
accepted(u, m) ==
    /\ m.sysid = u.uasId
    /\ \/ ~u.attitudeStamped
       \/ (u.attitudeStamped /\ u.lastAttitude # 0)
       \/ m.msgid = MAVLINK_MSG_ID_ATTITUDE

\* the switch on the message id: u the object after the ownership
\* resolution, w wrongComponent, md multiComponentSourceDetected
dispatch(u, m, t, w, md) ==
    CASE m.msgid = MAVLINK_MSG_ID_HEARTBEAT -> case_HEARTBEAT(u, m, t, w, md)
      [] m.msgid = MAVLINK_MSG_ID_SYS_STATUS -> case_SYS_STATUS(u, m, t, w, md)
      [] m.msgid = MAVLINK_MSG_ID_ATTITUDE -> case_ATTITUDE(u, m, t, w, md)
      [] m.msgid = MAVLINK_MSG_ID_ATTITUDE_QUATERNION ->
             case_ATTITUDE_QUATERNION(u, m, t, w, md)
      [] m.msgid = MAVLINK_MSG_ID_VFR_HUD -> case_VFR_HUD(u, m, t, w, md)
      [] m.msgid = MAVLINK_MSG_ID_COMMAND_ACK -> case_COMMAND_ACK(u, m, t, w, md)
      [] m.msgid = MAVLINK_MSG_ID_ATTITUDE_TARGET -> case_ATTITUDE_TARGET(u, m, t, w, md)
      [] m.msgid = MAVLINK_MSG_ID_LOCAL_POSITION_NED ->
             case_LOCAL_POSITION_NED(u, m, t, w, md)
      [] m.msgid = MAVLINK_MSG_ID_GLOBAL_POSITION_INT ->
             case_GLOBAL_POSITION_INT(u, m, t, w, md)
      [] m.msgid = MAVLINK_MSG_ID_GPS_RAW_INT -> case_GPS_RAW_INT(u, m, t, w, md)
      [] m.msgid = MAVLINK_MSG_ID_DATA_TRANSMISSION_HANDSHAKE ->
             case_DATA_TRANSMISSION_HANDSHAKE(u, m, t, w, md)
      [] m.msgid = MAVLINK_MSG_ID_ENCAPSULATED_DATA ->
             case_ENCAPSULATED_DATA(u, m, t, w, md)
      [] m.msgid \in IgnoredMsgIds -> case_ignored(u, m, t, w, md)
      [] OTHER -> case_default(u, m, t, w, md)

\* `if (!components.contains(message.compid)) ... components.insert(...)'
insertComponent(u, m) == [u EXCEPT !.components = @ \cup {m.compid}]

\* the body of the `if' that accepts the message, u the object after the
\* component has been inserted
acceptedMessage(u, m, t) ==
    dispatch(resolveComponent(u, m), m, t,
             wrongComponent(preferImu2(u.componentID, m), m),
             resolveComponent(u, m).componentMulti[m.msgid])

receiveMessage(u, m, t) ==
    IF accepted(u, m)
    THEN acceptedMessage(insertComponent(u, m), m, t)
    ELSE Result(insertComponent(u, m))

(***************************************************************************)
(* The outbound commands.  A command is an operator from the object to a   *)
(* record [u |-> the object afterwards, out |-> the signals emitted,       *)
(* sent |-> the messages handed to Vehicle::sendMessage].                  *)
(***************************************************************************)
Command(u) == [u |-> u, out |-> <<>>, sent |-> <<>>]

\* a COMMAND_LONG for the vehicle, with its seven parameters
CommandLong(u, command, params) ==
    [msgid |-> "COMMAND_LONG", target |-> u.uasId, command |-> command, params |-> params]

StartCalibrationTypes ==
    {"StartCalibrationGyro", "StartCalibrationMag", "StartCalibrationAirspeed",
     "StartCalibrationRadio", "StartCalibrationCopyTrims", "StartCalibrationAccel",
     "StartCalibrationLevel", "StartCalibrationEsc", "StartCalibrationUavcanEsc"}

\* the switch of UAS::startCalibration: gyro, mag, ground pressure, radio,
\* accel, airspeed and esc calibration
calibrationParams(calType) ==
    <<IF calType = "StartCalibrationGyro" THEN 1 ELSE 0,
      IF calType = "StartCalibrationMag" THEN 1 ELSE 0,
      0,
      CASE calType = "StartCalibrationRadio" -> 1
        [] calType = "StartCalibrationCopyTrims" -> 2
        [] OTHER -> 0,
      CASE calType = "StartCalibrationAccel" -> 1
        [] calType = "StartCalibrationLevel" -> 2
        [] OTHER -> 0,
      IF calType = "StartCalibrationAirspeed" THEN 1 ELSE 0,
      CASE calType = "StartCalibrationEsc" -> 1
        [] calType = "StartCalibrationUavcanEsc" -> 2
        [] OTHER -> 0>>

\* UAS::startCalibration without the test of _vehicle
startCalibration_unguarded(u, calType) ==
    [Command(u) EXCEPT
        !.sent = <<CommandLong(u, MAV_CMD_PREFLIGHT_CALIBRATION, calibrationParams(calType))>>]

\* UAS::startCalibration
startCalibration(u, calType) ==
    IF ~u.vehicle
    THEN Command(u)
    ELSE [Command(u) EXCEPT
             !.sent = <<CommandLong(u, MAV_CMD_PREFLIGHT_CALIBRATION,
                                    calibrationParams(calType))>>]

\* UAS::stopCalibration
stopCalibration(u) ==
    IF ~u.vehicle
    THEN Command(u)
    ELSE [Command(u) EXCEPT
             !.sent = <<CommandLong(u, MAV_CMD_PREFLIGHT_CALIBRATION,
                                    <<0, 0, 0, 0, 0, 0, 0>>)>>]

\* the statics of setExternalControlSetpoint: the inputs last transmitted
\* and the calls since the last transmission
ManualInit ==
    [manualRollAngle |-> 0, manualPitchAngle |-> 0, manualYawAngle |-> 0,
     manualThrust |-> 0, manualButtons |-> 0, countSinceLastTransmission |-> 0]

\* `!isnan(value) && value != stored'
differs(value, stored) == value # NaN /\ value # stored

\* the inputs of a call differ from the stored ones
inputsChanged(s, in) ==
    \/ differs(in.roll, s.manualRollAngle)
    \/ differs(in.pitch, s.manualPitchAngle)
    \/ differs(in.yaw, s.manualYawAngle)
    \/ differs(in.thrust, s.manualThrust)
    \/ in.buttons # s.manualButtons

\* `countSinceLastTransmission++ >= 5', and the branch on the inputs
sendCommand(s, in) == s.countSinceLastTransmission >= 5 \/ inputsChanged(s, in)

\* the counter after the test: incremented (quint8), then 0 after a periodic
\* transmission and 10 after a transmission of changed inputs
countAfter(s, in) ==
    IF s.countSinceLastTransmission >= 5 THEN 0
    ELSE IF inputsChanged(s, in) THEN 10
    ELSE (s.countSinceLastTransmission + 1) % 256

\* UAS::setExternalControlSetpoint in JoystickModeRC: [s |-> the statics
\* afterwards, out, sent]; of the MANUAL_CONTROL message the target and the
\* buttons are kept
setExternalControlSetpoint(u, s, in) ==
    IF ~u.vehicle
    THEN [s |-> s, out |-> <<>>, sent |-> <<>>]
    ELSE IF sendCommand(s, in)
    THEN [s |-> [manualRollAngle |-> in.roll, manualPitchAngle |-> in.pitch,
                 manualYawAngle |-> in.yaw, manualThrust |-> in.thrust,
                 manualButtons |-> in.buttons,
                 countSinceLastTransmission |-> countAfter(s, in)],
          out |-> <<"attitudeThrustSetPointChanged">>,
          sent |-> <<[msgid |-> "MANUAL_CONTROL", target |-> u.uasId,
                      buttons |-> in.buttons]>>]
    ELSE [s |-> [s EXCEPT !.countSinceLastTransmission = countAfter(s, in)],
          out |-> <<>>, sent |-> <<>>]

(***************************************************************************)
(* The calibration state machine, JoystickConfigController.  The header    *)
(* (src/src/VehicleSetup/JoystickConfigController.h) declares its states,  *)
(* fields and methods; the bodies of the methods are in                    *)
(* JoystickConfigController.cc, which is not among the sources, and follow *)
(* section 4.3 of the specification.  A method is an operator from the     *)
(* object `c' to the object afterwards.                                    *)
(***************************************************************************)
calStateAxisWait == 0
calStateBegin == 1
calStateIdentify == 2
calStateMinMax == 3
calStateCenterThrottle == 4
calStateDetectInversion == 5
calStateTrims == 6
calStateSave == 7

\* Joystick::maxFunction: the functions are roll, pitch, yaw, throttle
maxFunction == 4
Functions == 0..(maxFunction - 1)

axisMax == 4
axisMinimum == 4
Axes == 0..(axisMax - 1)

calCenterPoint == 0
calMoveDelta == 50
calSettleDelta == 20
calMinDelta == 50
stickDetectSettleMSecs == 100

\* AxisInfo of an axis that _resetInternalCalibrationValues has reset
NoAxisInfo ==
    [function |-> maxFunction, reversed |-> FALSE, axisMin |-> calCenterPoint,
     axisMax |-> calCenterPoint, axisTrim |-> calCenterPoint]

\* the calibration values of the object: what a session changes, what cancel
\* restores and what save writes
Calibration(c) == [mapping |-> c.rgFunctionAxisMapping, info |-> c.rgAxisInfo]

\* what a validation reports: the functions and the axes that failed
NoFailure == [functions |-> {}, axes |-> {}]

\* JoystickConfigController::JoystickConfigController
CalInit ==
    [calState |-> calStateAxisWait,
     axisCount |-> 0,
     calStateCurrentAxis |-> 0,
     rgFunctionAxisMapping |-> [f \in Functions |-> axisMax],
     rgAxisInfo |-> [a \in Axes |-> NoAxisInfo],
     axisValueSave |-> [a \in Axes |-> calCenterPoint],
     axisRawValue |-> [a \in Axes |-> calCenterPoint],
     stickDetectAxis |-> axisMax,
     stickDetectInitialValue |-> 0,
     stickDetectValue |-> 0,
     stickDetectSettleStarted |-> FALSE,
     stickDetectSettleElapsed |-> 0,
     snapshot |-> [mapping |-> [f \in Functions |-> axisMax],
                   info |-> [a \in Axes |-> NoAxisInfo]],
     written |-> FALSE,
     failure |-> NoFailure]

\* the stick detection forgotten and the axis values saved as the baseline
\* of the next detection
resetStickDetect(c) ==
    [c EXCEPT !.axisValueSave = c.axisRawValue,
              !.stickDetectAxis = axisMax,
              !.stickDetectInitialValue = 0,
              !.stickDetectValue = 0,
              !.stickDetectSettleStarted = FALSE,
              !.stickDetectSettleElapsed = 0]

\* _setupCurrentState: entry of a state
setupCurrentState(c) == resetStickDetect([c EXCEPT !.calStateCurrentAxis = 0])

\* _advanceState passing over a state
advanceState_skip(c) ==
    setupCurrentState([c EXCEPT !.calState = IF @ + 2 <= calStateSave THEN @ + 2 ELSE @ + 1])

\* _advanceState: the next state of calStates
advanceState(c) == setupCurrentState([c EXCEPT !.calState = @ + 1])

\* the sub-loop of calStateIdentify and calStateDetectInversion: the next
\* function, or the next state after the last function
advanceAxis(c) ==
    IF c.calStateCurrentAxis + 1 < maxFunction
    THEN resetStickDetect([c EXCEPT !.calStateCurrentAxis = @ + 1])
    ELSE advanceState(c)

\* the function mapped to the axis, reassigning without un-assigning
mapAxis_keepOld(c, function, axis) ==
    [c EXCEPT !.rgFunctionAxisMapping = [@ EXCEPT ![function] = axis],
              !.rgAxisInfo = [@ EXCEPT ![axis].function = function]]

\* the function mapped to the axis: the axis the function had and the
\* function the axis had are un-assigned
mapAxis(c, function, axis) ==
    [c EXCEPT !.rgFunctionAxisMapping =
                  [f \in Functions |->
                      IF f = function THEN axis
                      ELSE IF c.rgFunctionAxisMapping[f] = axis THEN axisMax
                      ELSE c.rgFunctionAxisMapping[f]],
              !.rgAxisInfo =
                  [a \in Axes |->
                      IF a = axis THEN [c.rgAxisInfo[a] EXCEPT !.function = function]
                      ELSE IF c.rgAxisInfo[a].function = function
                           THEN [c.rgAxisInfo[a] EXCEPT !.function = maxFunction]
                           ELSE c.rgAxisInfo[a]]]

\* _stickSettleComplete: the value has stayed within the settle band of
\* stickDetectValue for stickDetectSettleMSecs
stickSettleComplete(c, axis, value) ==
    IF Abs(c.stickDetectValue - value) > calSettleDelta
    THEN [c |-> [c EXCEPT !.stickDetectValue = value,
                          !.stickDetectSettleStarted = FALSE,
                          !.stickDetectSettleElapsed = 0],
          ret |-> FALSE]
    ELSE IF c.stickDetectSettleStarted
         THEN [c |-> c, ret |-> c.stickDetectSettleElapsed >= stickDetectSettleMSecs]
         ELSE [c |-> [c EXCEPT !.stickDetectSettleStarted = TRUE,
                               !.stickDetectSettleElapsed = 0],
               ret |-> FALSE]

\* the first phase of the detection: an axis moves beyond calMoveDelta from
\* its saved value
stickMoved(c, axis, value) ==
    IF Abs(c.axisValueSave[axis] - value) > calMoveDelta
    THEN [c EXCEPT !.stickDetectAxis = axis,
                   !.stickDetectInitialValue = value,
                   !.stickDetectValue = value,
                   !.stickDetectSettleStarted = FALSE,
                   !.stickDetectSettleElapsed = 0]
    ELSE c

\* _inputStickDetect without the settle phase: the move identifies the axis
inputStickDetect_noSettle(c, function, axis, value) ==
    IF Abs(c.axisValueSave[axis] - value) > calMoveDelta
    THEN advanceAxis(mapAxis(c, function, axis))
    ELSE c

\* _inputStickDetect: calStateIdentify
inputStickDetect(c, function, axis, value) ==
    IF c.stickDetectAxis = axisMax
    THEN stickMoved(c, axis, value)
    ELSE IF axis = c.stickDetectAxis
         THEN IF stickSettleComplete(c, axis, value).ret
              THEN advanceAxis(mapAxis(c, function, axis))
              ELSE stickSettleComplete(c, axis, value).c
         ELSE c

\* calStateDetectInversion: the same detection; the axis is reversed when it
\* has settled below its saved value
inputInversionDetect(c, function, axis, value) ==
    IF c.stickDetectAxis = axisMax
    THEN stickMoved(c, axis, value)
    ELSE IF axis = c.stickDetectAxis
         THEN IF stickSettleComplete(c, axis, value).ret
              THEN advanceAxis(
                       [mapAxis(c, function, axis)
                           EXCEPT !.rgAxisInfo[axis].reversed =
                                      c.stickDetectValue < c.axisValueSave[axis]])
              ELSE stickSettleComplete(c, axis, value).c
         ELSE c

\* calStateMinMax: the running minimum and maximum of a mapped axis
inputMinMax(c, axis, value) ==
    IF c.rgAxisInfo[axis].function # maxFunction
    THEN [c EXCEPT !.rgAxisInfo[axis].axisMin = IF value < @ THEN value ELSE @,
                   !.rgAxisInfo[axis].axisMax = IF value > @ THEN value ELSE @]
    ELSE c

\* _axisValueChanged
axisValueChanged(c, axis, value) ==
    CASE c.calState = calStateIdentify ->
             inputStickDetect([c EXCEPT !.axisRawValue[axis] = value],
                              c.calStateCurrentAxis, axis, value)
      [] c.calState = calStateDetectInversion ->
             inputInversionDetect([c EXCEPT !.axisRawValue[axis] = value],
                                  c.calStateCurrentAxis, axis, value)
      [] c.calState = calStateMinMax ->
             inputMinMax([c EXCEPT !.axisRawValue[axis] = value], axis, value)
      [] OTHER -> [c EXCEPT !.axisRawValue[axis] = value]

\* every mapped axis has a spread above calMinDelta
spreadSufficient(c) ==
    \A a \in Axes :
        c.rgAxisInfo[a].function # maxFunction
            => c.rgAxisInfo[a].axisMax - c.rgAxisInfo[a].axisMin > calMinDelta

\* _saveAllTrims: the current value of every axis is its trim
saveAllTrims(c) ==
    [c EXCEPT !.rgAxisInfo = [a \in Axes |-> [@[a] EXCEPT !.axisTrim = c.axisRawValue[a]]]]

\* skip of the trims: the trim of every axis is the center point
skipTrims(c) ==
    [c EXCEPT !.rgAxisInfo = [a \in Axes |-> [@[a] EXCEPT !.axisTrim = calCenterPoint]]]

\* _validateCalibration: every function mapped, to an axis of its own, with
\* a sufficient spread around the center point
validCalibration(c) ==
    /\ \A f \in Functions :
          /\ c.rgFunctionAxisMapping[f] # axisMax
          /\ c.rgAxisInfo[c.rgFunctionAxisMapping[f]].function = f
    /\ spreadSufficient(c)
    /\ \A a \in Axes :
          c.rgAxisInfo[a].function # maxFunction
              => /\ c.rgAxisInfo[a].axisMin <= calCenterPoint
                 /\ calCenterPoint <= c.rgAxisInfo[a].axisMax

\* what _validateCalibration reports: the functions without an axis of their
\* own, and the mapped axes without the spread or with the center point
\* outside their range
validationFailure(c) ==
    [functions |->
         {f \in Functions :
             \/ c.rgFunctionAxisMapping[f] = axisMax
             \/ c.rgAxisInfo[c.rgFunctionAxisMapping[f]].function # f},
     axes |->
         {a \in Axes :
             /\ c.rgAxisInfo[a].function # maxFunction
             /\ \/ c.rgAxisInfo[a].axisMax - c.rgAxisInfo[a].axisMin <= calMinDelta
                \/ c.rgAxisInfo[a].axisMin > calCenterPoint
                \/ calCenterPoint > c.rgAxisInfo[a].axisMax}]

\* _calSave writing whatever the validation says
calSave_unvalidated(c) == [c EXCEPT !.written = TRUE, !.failure = NoFailure]

\* _calSave: the calibration is written when it is valid, and the failure is
\* reported when it is not
calSave(c) ==
    IF validCalibration(c)
    THEN [c EXCEPT !.written = TRUE, !.failure = NoFailure]
    ELSE [c EXCEPT !.failure = validationFailure(c)]

\* nextButtonClicked without the test of the spread
nextButtonClicked_unchecked(c) ==
    CASE c.calState = calStateBegin -> advanceState(c)
      [] c.calState = calStateMinMax -> advanceState(c)
      [] c.calState = calStateCenterThrottle -> advanceState(c)
      [] c.calState = calStateTrims -> advanceState(saveAllTrims(c))
      [] c.calState = calStateSave -> calSave(c)
      [] OTHER -> c

\* nextButtonClicked
nextButtonClicked(c) ==
    CASE c.calState = calStateBegin -> advanceState(c)
      [] c.calState = calStateMinMax -> IF spreadSufficient(c) THEN advanceState(c) ELSE c
      [] c.calState = calStateCenterThrottle -> advanceState(c)
      [] c.calState = calStateTrims -> advanceState(saveAllTrims(c))
      [] c.calState = calStateSave -> calSave(c)
      [] OTHER -> c

\* skipButtonClicked
skipButtonClicked(c) ==
    IF c.calState = calStateTrims THEN advanceState(skipTrims(c)) ELSE c

\* start leaving calStateAxisWait whatever the axis count
start_unguarded(c) ==
    IF c.calState = calStateAxisWait
    THEN advanceState([c EXCEPT !.snapshot = Calibration(c),
                                !.rgFunctionAxisMapping = [f \in Functions |-> axisMax],
                                !.rgAxisInfo = [a \in Axes |-> NoAxisInfo],
                                !.written = FALSE,
                                !.failure = NoFailure])
    ELSE c

\* start: _startCalibration once the device reports enough axes; the
\* calibration values are kept for cancel and reset
start(c) ==
    IF c.calState = calStateAxisWait /\ c.axisCount >= axisMinimum
    THEN advanceState([c EXCEPT !.snapshot = Calibration(c),
                                !.rgFunctionAxisMapping = [f \in Functions |-> axisMax],
                                !.rgAxisInfo = [a \in Axes |-> NoAxisInfo],
                                !.written = FALSE,
                                !.failure = NoFailure])
    ELSE c

\* cancelButtonClicked leaving the values of the interrupted calibration
cancelButtonClicked_keep(c) ==
    IF c.calState = calStateAxisWait
    THEN c
    ELSE setupCurrentState([c EXCEPT !.calState = calStateAxisWait,
                                     !.failure = NoFailure])

\* cancelButtonClicked: _stopCalibration; the calibration values are those
\* kept by start
cancelButtonClicked(c) ==
    IF c.calState = calStateAxisWait
    THEN c
    ELSE setupCurrentState([c EXCEPT !.calState = calStateAxisWait,
                                     !.failure = NoFailure,
                                     !.rgFunctionAxisMapping = c.snapshot.mapping,
                                     !.rgAxisInfo = c.snapshot.info])

\* _setInternalCalibrationValuesFromSettings: the calibration the device
\* was last saved with; a device with too few axes has none
StoredCalibration(count) ==
    IF count >= axisMinimum
    THEN [mapping |-> [f \in Functions |-> f],
          info |-> [a \in Axes |->
                       [function |-> a, reversed |-> (a = 2), axisMin |-> -100,
                        axisMax |-> 100, axisTrim |-> 10]]]
    ELSE [mapping |-> [f \in Functions |-> axisMax], info |-> [a \in Axes |-> NoAxisInfo]]

\* _activeJoystickChanged: the axis count of the device and its stored
\* calibration
activeJoystickChanged(c, count) ==
    [c EXCEPT !.axisCount = count,
              !.rgFunctionAxisMapping = StoredCalibration(count).mapping,
              !.rgAxisInfo = StoredCalibration(count).info]

(***************************************************************************)
(* The inputs: the messages the link delivers.                             *)
(***************************************************************************)
Message(sysid, compid, msgid, p) ==
    [sysid |-> sysid, compid |-> compid, msgid |-> msgid, p |-> p]

\* the header of a message: what `last' keeps of it
Header(m) == [sysid |-> m.sysid, compid |-> m.compid, msgid |-> m.msgid]

NoMessage == [sysid |-> 0, compid |-> 0, msgid |-> -1]

\* components of the bound vehicle that send in the model
Components == {1, 2, MAV_COMP_ID_IMU_2}

\* Two readings for every state message type, k = 1 or 2.
HeartbeatPayload(k) ==
    [type |-> MAV_TYPE_QUADROTOR, autopilot |-> 12, base_mode |-> 81, custom_mode |-> 0,
     system_status |-> IF k = 1 THEN MAV_STATE_STANDBY ELSE MAV_STATE_CRITICAL]

SysStatusPayload(k) ==
    IF k = 1
    THEN [voltage_battery |-> 12000, battery_remaining |-> 50, current_battery |-> 100]
    ELSE [voltage_battery |-> 10000, battery_remaining |-> 10, current_battery |-> -1]

AttitudePayload(k) ==
    [time_boot_ms |-> 1000, roll |-> 10, pitch |-> -5, yaw |-> IF k = 1 THEN 90 ELSE 270]

VfrHudPayload(k) ==
    IF k = 1
    THEN [heading |-> 45, alt |-> 10, groundspeed |-> 500, airspeed |-> 600, climb |-> 1]
    ELSE [heading |-> 200, alt |-> 12, groundspeed |-> 520, airspeed |-> NaN, climb |-> 0]

LocalPositionPayload(k) ==
    [time_boot_ms |-> 2000, x |-> k, y |-> 2, z |-> -3, vx |-> k, vy |-> 0, vz |-> 0]

GlobalPositionPayload(k) ==
    [lat |-> 473000000 + k, lon |-> 85000000, alt |-> 500000, relative_alt |-> 20000,
     vx |-> 3, vy |-> 4, vz |-> 0]

GpsRawPayload(k) ==
    IF k = 1
    THEN [time_usec |-> 3000000, fix_type |-> 3, lat |-> 472000000, lon |-> 84000000,
          alt |-> 490000, vel |-> 700, satellites_visible |-> 7]
    ELSE [time_usec |-> 3000000, fix_type |-> 2, lat |-> 471000000, lon |-> 83000000,
          alt |-> 480000, vel |-> 100, satellites_visible |-> 4]

Payload(msgid, k) ==
    CASE msgid = MAVLINK_MSG_ID_HEARTBEAT -> HeartbeatPayload(k)
      [] msgid = MAVLINK_MSG_ID_SYS_STATUS -> SysStatusPayload(k)
      [] msgid = MAVLINK_MSG_ID_ATTITUDE -> AttitudePayload(k)
      [] msgid = MAVLINK_MSG_ID_VFR_HUD -> VfrHudPayload(k)
      [] msgid = MAVLINK_MSG_ID_LOCAL_POSITION_NED -> LocalPositionPayload(k)
      [] msgid = MAVLINK_MSG_ID_GLOBAL_POSITION_INT -> GlobalPositionPayload(k)
      [] msgid = MAVLINK_MSG_ID_GPS_RAW_INT -> GpsRawPayload(k)

HeartbeatMessages ==
    {Message(BoundSysId, c, MAVLINK_MSG_ID_HEARTBEAT, HeartbeatPayload(k)) :
        c \in Components, k \in {1, 2}}

\* the readings component c reports: component 1 either reading, component 2
\* the second, the secondary IMU the first
ReadingsOf(c) == IF c = 1 THEN {1, 2} ELSE IF c = 2 THEN {2} ELSE {1}

\* state messages of the bound vehicle, and messages of another vehicle
DispatchMessages ==
    UNION {{Message(BoundSysId, c, id, Payload(id, k)) : k \in ReadingsOf(c)}
              : <<id, c>> \in StateMsgIds \X Components}
    \cup {Message(OtherSysId, 3, id, Payload(id, 1))
              : id \in {MAVLINK_MSG_ID_HEARTBEAT, MAVLINK_MSG_ID_GLOBAL_POSITION_INT}}

\* handshakes announcing a transfer: total size, packet count, payload size
HandshakeMessages ==
    {Message(BoundSysId, 1, MAVLINK_MSG_ID_DATA_TRANSMISSION_HANDSHAKE,
             [size |-> s, packets |-> n, payload |-> pl]) :
        s \in (MaxImageSize - 1)..MaxImageSize, n \in (MaxImagePackets - 1)..MaxImagePackets,
        pl \in (MaxImagePayload - 1)..MaxImagePayload}

\* the data array of chunk q of image v: bytes that differ from chunk to
\* chunk, from position to position and from image to image
ImageData(v, q) == [i \in 1..MaxImagePayload |-> 100 * v + MaxImagePayload * q + i]

\* the images the camera sends
Images == {1}

DataMessages ==
    {Message(BoundSysId, 1, MAVLINK_MSG_ID_ENCAPSULATED_DATA,
             [seqnr |-> q, data |-> ImageData(v, q)]) :
        q \in 0..MaxSeqnr, v \in Images}

\* the attitude messages of component 1
AttitudeMessages ==
    {Message(BoundSysId, 1, MAVLINK_MSG_ID_ATTITUDE, AttitudePayload(k)) : k \in {1, 2}}

\* battery voltages reported, millivolts: far below and far above tickVoltage
Voltages == {4000, 20000}

\* remaining charge reported, percent: unknown, below and above the warn
\* level, and the two ends of the range of the signed byte that carries it
Charges == {-128, -1, 10, 50, 127}

\* the system status messages of component 1
BatteryMessages ==
    {Message(BoundSysId, 1, MAVLINK_MSG_ID_SYS_STATUS,
             [voltage_battery |-> v, battery_remaining |-> c, current_battery |-> -1]) :
        v \in Voltages, c \in Charges}

\* messages of unknown types from two components, a message of an ignored
\* type and heartbeats of component 1
UnknownMessages ==
    {Message(BoundSysId, c, id, [unused |-> 0]) : c \in {1, 2}, id \in UnknownMsgIds}
    \cup {Message(BoundSysId, 1, id, [unused |-> 0]) : id \in IgnoredMsgIds}
    \cup {Message(BoundSysId, 1, MAVLINK_MSG_ID_HEARTBEAT, HeartbeatPayload(k)) : k \in {1, 2}}

\* angles an attitude message reports, degrees: inside the range, on its
\* ends and one or several turns outside it
Angles == {-540, -181, -180, -5, 180, 181, 540}

\* headings a VFR HUD message reports, degrees
Headings == {0, 180, 200, 359}

\* attitude quaternions in multiples of 1/sqrt(2): a quarter turn of yaw
\* either way, a quarter turn of roll, pitch straight up, pitch straight
\* down, and half a turn of roll with a quarter turn of yaw
Quaternions ==
    {<<1, 0, 0, 1>>, <<1, 0, 0, -1>>, <<1, 1, 0, 0>>, <<1, 0, 1, 0>>, <<1, 0, -1, 0>>,
     <<0, 1, 1, 0>>}

\* attitude, attitude quaternion and VFR HUD messages; component 2 sends one
\* attitude quaternion
OrientationMessages ==
    {Message(BoundSysId, 1, MAVLINK_MSG_ID_ATTITUDE,
             [AttitudePayload(1) EXCEPT !.roll = a, !.yaw = -a]) : a \in Angles}
    \cup {Message(BoundSysId, 1, MAVLINK_MSG_ID_ATTITUDE_QUATERNION,
                  [time_boot_ms |-> 1000, q |-> q]) : q \in Quaternions}
    \cup {Message(BoundSysId, 2, MAVLINK_MSG_ID_ATTITUDE_QUATERNION,
                  [time_boot_ms |-> 1000, q |-> <<1, 0, 0, 1>>])}
    \cup {Message(BoundSysId, 1, MAVLINK_MSG_ID_VFR_HUD,
                  [VfrHudPayload(1) EXCEPT !.heading = h]) : h \in Headings}

\* raw values an axis reports: at the center point and deflected
AxisValues == {calCenterPoint, 100}

\* axis counts a joystick reports: one too few, and enough
AxisCounts == {axisMinimum - 1, axisMinimum}

\* velocities a local position message carries in its float fields
LocalVelocities == {1, NaN, Infinity}

\* position messages of components 1 and 2: either global position, raw GPS
\* with and without a 3D fix, local positions with each velocity
PositionMessages ==
    {Message(BoundSysId, 1, MAVLINK_MSG_ID_GLOBAL_POSITION_INT, GlobalPositionPayload(k)) :
        k \in {1, 2}}
    \cup {Message(BoundSysId, c, MAVLINK_MSG_ID_GPS_RAW_INT, GpsRawPayload(k)) :
             c \in {1, 2}, k \in {1, 2}}
    \cup {Message(BoundSysId, 1, MAVLINK_MSG_ID_LOCAL_POSITION_NED,
                  [LocalPositionPayload(1) EXCEPT !.vx = v]) : v \in LocalVelocities}
    \cup {Message(BoundSysId, 2, MAVLINK_MSG_ID_LOCAL_POSITION_NED,
                  [LocalPositionPayload(2) EXCEPT !.vy = NaN])}

\* raw timestamps handed to the time reconciliation: none, onboard-relative
\* microseconds (below and above the backward slack, a step back within the
\* slack, a clock that ran ahead) and a Unix epoch timestamp
RawTimes == {0, 50, 60, 1000, 4999950, 5000000, 30000000, FortyYearsUsec + 5000}

\* no call of the time reconciliation yet
NoCall == [fn |-> "none", time |-> 0, ret |-> 0, uTime |-> -1, uRet |-> -1]

\* what the memory of lastHeartbeat may hold at construction: zero, or a
\* value beyond the ground clock
UninitLastHeartbeat == {0, groundTimeUsecs(StartTime) + 300000}

\* the heartbeat period of the regular sender, milliseconds
HeartbeatPeriodMs == 4 * TickMs

(***************************************************************************)
(* The state machine.                                                      *)
(***************************************************************************)
\* the program after the construction of one of the objects us
Constructed(us) ==
    /\ uas \in us
    /\ now = StartTime
    /\ statusTimeoutAt = StartTime + StatusTimeoutMs
    /\ emitted = <<>>
    /\ last = [op |-> "construct", msg |-> NoMessage]
    /\ imgClean = TRUE
    /\ imgHist = <<>>
    /\ hbSeen = FALSE
    /\ hbRegular = TRUE
    /\ budget = MaxMessages
    /\ timeCall = NoCall
    /\ cal = CalInit
    /\ sent = <<>>
    /\ manual = ManualInit
    /\ txHist = [quiet |-> 0, changed |-> FALSE]
    /\ hbAny = [at |-> StartTime, regular |-> TRUE]

\* the object of a vehicle
Init == Constructed({UASInit(lh) : lh \in UninitLastHeartbeat})

\* the object of a vehicle, or an object without one
\* message.msgid, one byte on the wire
WireMsgIds == 0..255

\* the entries the loop of the constructor assigns: `for (i = 0; i<255; ++i)'
InitialisedMsgIds == {i \in WireMsgIds : i < 255}

\* what an entry the constructor has not assigned may hold
UninitOwners == {-1, 1, 2, 7}

\* the object with the entries of the table the constructor leaves
\* unassigned, holding owner and multi
Unassigned(u, owner, multi) ==
    [u EXCEPT !.componentID =
                  [i \in DOMAIN @ \cup (WireMsgIds \ InitialisedMsgIds) |->
                      IF i \in InitialisedMsgIds THEN @[i] ELSE owner],
              !.componentMulti =
                  [i \in DOMAIN @ \cup (WireMsgIds \ InitialisedMsgIds) |->
                      IF i \in InitialisedMsgIds THEN @[i] ELSE multi]]

\* the constructed object with its whole ownership table
InitOwnership ==
    Constructed({Unassigned(UASInit(lh), owner, multi) :
                    lh \in UninitLastHeartbeat, owner \in UninitOwners, multi \in BOOLEAN})

InitCommand ==
    Constructed({UASInit(lh) : lh \in UninitLastHeartbeat}
                    \cup {Detached(UASInit(lh)) : lh \in UninitLastHeartbeat})

\* ground time of the last accepted heartbeat, or of the construction
lastHbMs == IF hbSeen THEN uas.lastHeartbeat \div 1000 ELSE StartTime

\* the ground clock advances
Tick ==
    /\ now < StartTime + MaxTicks * TickMs
    /\ now' = now + TickMs
    /\ hbRegular' = (hbRegular /\ now' - lastHbMs <= HeartbeatPeriodMs)
    /\ emitted' = <<>>
    /\ last' = [op |-> "tick", msg |-> NoMessage]
    /\ hbAny' = [hbAny EXCEPT !.regular = (@ /\ now' - hbAny.at <= HeartbeatPeriodMs)]
    /\ UNCHANGED <<sent, manual, txHist, cal, uas, statusTimeoutAt, imgClean, imgHist, hbSeen, budget, timeCall>>

\* the statusTimeout timer fires: UAS::updateState
UpdateState ==
    /\ now >= statusTimeoutAt
    /\ uas' = updateState(uas, now).u
    /\ emitted' = updateState(uas, now).out
    /\ statusTimeoutAt' = now + StatusTimeoutMs
    /\ last' = [op |-> "updateState", msg |-> NoMessage]
    /\ UNCHANGED <<hbAny, sent, manual, txHist, cal, now, imgClean, imgHist, hbSeen, hbRegular, budget, timeCall>>

\* the link delivers message m and UAS::receiveMessage handles it with result r
Delivered(m, r) ==
    /\ uas' = r.u
    /\ emitted' = r.out
    /\ hbSeen' = (hbSeen \/ Count(r.out, "heartbeat") > 0)
    /\ last' = [op |-> "receiveMessage", msg |-> Header(m), p |-> m.p]
    /\ imgClean' = IF m.msgid = MAVLINK_MSG_ID_DATA_TRANSMISSION_HANDSHAKE /\ accepted(uas, m)
                   THEN uas.imageRecBuffer = <<>> ELSE imgClean
    /\ imgHist' = IF m.msgid = MAVLINK_MSG_ID_DATA_TRANSMISSION_HANDSHAKE /\ accepted(uas, m)
                  THEN <<>>
                  ELSE IF /\ m.msgid = MAVLINK_MSG_ID_ENCAPSULATED_DATA
                          /\ accepted(uas, m) /\ uas.imagePackets # 0
                       THEN Append(imgHist, m.p)
                       ELSE imgHist
    /\ hbAny' = IF m.msgid = MAVLINK_MSG_ID_HEARTBEAT /\ accepted(uas, m)
                THEN [hbAny EXCEPT !.at = now] ELSE hbAny
    /\ UNCHANGED <<sent, manual, txHist, cal, now, statusTimeoutAt, hbRegular, timeCall>>

Receive(m) == Delivered(m, receiveMessage(uas, m, now))

ReceiveHeartbeat == (\E m \in HeartbeatMessages : Receive(m)) /\ UNCHANGED budget

ReceiveHandshake == (\E m \in HandshakeMessages : Receive(m)) /\ UNCHANGED budget

ReceiveData == (\E m \in DataMessages : Receive(m)) /\ UNCHANGED budget

ReceiveDispatch ==
    /\ budget > 0
    /\ budget' = budget - 1
    /\ \E m \in DispatchMessages : Receive(m)

\* the user interface fetches the image: UAS::getImage
GetImage ==
    /\ \E loaded \in BOOLEAN : uas' = getImage(uas, loaded)
    /\ emitted' = <<>>
    /\ last' = [op |-> "getImage", msg |-> NoMessage]
    /\ UNCHANGED <<hbAny, sent, manual, txHist, cal, now, statusTimeoutAt, imgClean, imgHist, hbSeen, hbRegular, budget, timeCall>>

\* the ground clock advances by a long interval
Elapse ==
    /\ now + ElapseMs <= StartTime + MaxElapses * ElapseMs
    /\ now' = now + ElapseMs
    /\ hbRegular' = (hbRegular /\ now' - lastHbMs <= HeartbeatPeriodMs)
    /\ emitted' = <<>>
    /\ last' = [op |-> "elapse", msg |-> NoMessage]
    /\ hbAny' = [hbAny EXCEPT !.regular = (@ /\ now' - hbAny.at <= HeartbeatPeriodMs)]
    /\ UNCHANGED <<sent, manual, txHist, cal, uas, statusTimeoutAt, imgClean, imgHist, hbSeen, budget, timeCall>>

\* a call of fn with the raw timestamp time has returned r.ret and left the
\* object r.u; uTime and uRet keep the latest call of getUnixTime
Called(fn, time, r) ==
    /\ uas' = r.u
    /\ timeCall' = [fn |-> fn, time |-> time, ret |-> r.ret,
                    uTime |-> IF fn = "getUnixTime" THEN time ELSE timeCall.uTime,
                    uRet |-> IF fn = "getUnixTime" THEN r.ret ELSE timeCall.uRet]
    /\ emitted' = <<>>
    /\ last' = [op |-> fn, msg |-> NoMessage]
    /\ UNCHANGED <<hbAny, sent, manual, txHist, cal, now, statusTimeoutAt, imgClean, imgHist, hbSeen, hbRegular>>

\* UAS::getUnixTime is called
GetUnixTime ==
    /\ budget > 0
    /\ budget' = budget - 1
    /\ \E time \in RawTimes : Called("getUnixTime", time, getUnixTime(uas, time, now))

\* UAS::getUnixReferenceTime is called
GetUnixReferenceTime ==
    /\ budget > 0
    /\ budget' = budget - 1
    /\ \E time \in RawTimes :
          Called("getUnixReferenceTime", time, getUnixReferenceTime(uas, time, now))

\* the attitude-stamped mode is switched on
EnableAttitudeStamped ==
    /\ ~uas.attitudeStamped
    /\ uas' = [uas EXCEPT !.attitudeStamped = TRUE]
    /\ emitted' = <<>>
    /\ last' = [op |-> "enableAttitudeStamped", msg |-> NoMessage]
    /\ UNCHANGED <<hbAny, sent, manual, txHist, cal, now, statusTimeoutAt, imgClean, imgHist, hbSeen, hbRegular, budget,
                   timeCall>>

ReceiveAttitude ==
    /\ budget > 0
    /\ budget' = budget - 1
    /\ \E m \in AttitudeMessages : Receive(m)

NextHeartbeat == Tick \/ UpdateState \/ ReceiveHeartbeat

NextTime ==
    Elapse \/ GetUnixTime \/ GetUnixReferenceTime \/ EnableAttitudeStamped \/ ReceiveAttitude

NextImage == ReceiveHandshake \/ ReceiveData \/ GetImage

NextDispatch == ReceiveDispatch

ReceiveBattery ==
    /\ budget > 0
    /\ budget' = budget - 1
    /\ \E m \in BatteryMessages : Receive(m)

NextBattery == Elapse \/ ReceiveBattery

NextGate == EnableAttitudeStamped \/ ReceiveDispatch

ReceivePosition ==
    /\ budget > 0
    /\ budget' = budget - 1
    /\ \E m \in PositionMessages : Receive(m)

NextPosition == ReceivePosition

\* command acknowledgements with each result and one beyond them, and
\* attitude targets
AckMessages ==
    {Message(BoundSysId, c, MAVLINK_MSG_ID_COMMAND_ACK,
             [command |-> MAV_CMD_PREFLIGHT_CALIBRATION, result |-> res]) :
        c \in {1, 2}, res \in MAV_RESULT_ACCEPTED..(MAV_RESULT_FAILED + 1)}
    \cup {Message(BoundSysId, 1, MAVLINK_MSG_ID_ATTITUDE_TARGET, [time_boot_ms |-> ms]) :
              ms \in {0, 1000}}

\* messages of types over the range of the wire, the last one included
OwnershipMessages ==
    {Message(BoundSysId, c, id, [unused |-> 0]) :
        c \in {1, 2}, id \in UnknownMsgIds \cup (WireMsgIds \ InitialisedMsgIds)}

ReceiveOwnership ==
    /\ budget > 0
    /\ budget' = budget - 1
    /\ \E m \in OwnershipMessages :
          /\ m.msgid \in DOMAIN uas.componentID
          /\ Receive(m)

NextOwnership == ReceiveOwnership

ReceiveAck ==
    /\ budget > 0
    /\ budget' = budget - 1
    /\ \E m \in AckMessages : Receive(m)

NextAck == ReceiveAck

ReceiveUnknown ==
    /\ budget > 0
    /\ budget' = budget - 1
    /\ \E m \in UnknownMessages : Receive(m)

NextUnknown == ReceiveUnknown

ReceiveOrientation ==
    /\ budget > 0
    /\ budget' = budget - 1
    /\ \E m \in OrientationMessages : Receive(m)

NextOrientation == ReceiveOrientation

\* a step of the calibration controller: c the object afterwards
Calibrated(op, c) ==
    /\ cal' = c
    /\ emitted' = <<>>
    /\ last' = [op |-> op, msg |-> NoMessage]
    /\ UNCHANGED <<hbAny, sent, manual, txHist, uas, now, statusTimeoutAt, imgClean, imgHist, hbSeen,
                   hbRegular, timeCall>>

\* a joystick is attached or exchanged before the calibration starts
ActiveJoystickChanged ==
    \E count \in AxisCounts :
        /\ cal.calState = calStateAxisWait
        /\ count # cal.axisCount
        /\ Calibrated("activeJoystickChanged", activeJoystickChanged(cal, count))
        /\ UNCHANGED budget

\* a bounded number of calibrations is started
Start ==
    /\ cal.calState = calStateAxisWait
    /\ budget > MaxMessages - MaxCalEvents
    /\ budget' = budget - 1
    /\ Calibrated("start", start(cal))

\* the axis the operator is asked to move: in the two detections the axis
\* with the index of the current function or, once an axis is being
\* detected, that axis; in calStateMinMax every axis
Expected(c, axis) ==
    CASE c.calState \in {calStateIdentify, calStateDetectInversion} ->
             IF c.stickDetectAxis = axisMax
             THEN axis = c.calStateCurrentAxis
             ELSE axis = c.stickDetectAxis
      [] c.calState = calStateMinMax -> TRUE
      [] OTHER -> FALSE

\* a sample of an axis the operator is asked to move
AxisValueChanged ==
    \E axis \in Axes, value \in AxisValues :
        /\ axis < cal.axisCount
        /\ Expected(cal, axis)
        /\ Calibrated("axisValueChanged", axisValueChanged(cal, axis, value))
        /\ UNCHANGED budget

\* a sample of any other axis, a bounded number of times
StrayAxisValueChanged ==
    \E axis \in Axes, value \in AxisValues :
        /\ axis < cal.axisCount
        /\ ~Expected(cal, axis)
        /\ budget > MaxMessages - MaxCalEvents
        /\ budget' = budget - 1
        /\ Calibrated("axisValueChanged", axisValueChanged(cal, axis, value))

NextButtonClicked ==
    /\ cal.calState # calStateSave \/ ~cal.written
    /\ Calibrated("nextButtonClicked", nextButtonClicked(cal))
    /\ UNCHANGED budget

SkipButtonClicked ==
    /\ cal.calState # calStateSave
    /\ Calibrated("skipButtonClicked", skipButtonClicked(cal))
    /\ UNCHANGED budget

CancelButtonClicked ==
    /\ cal.calState # calStateAxisWait
    /\ Calibrated("cancelButtonClicked", cancelButtonClicked(cal))
    /\ UNCHANGED budget

\* time passes on the settle timer, which is read up to stickDetectSettleMSecs
SettleElapse ==
    /\ cal.stickDetectSettleStarted
    /\ cal.stickDetectSettleElapsed < stickDetectSettleMSecs
    /\ Calibrated("settleElapse", [cal EXCEPT !.stickDetectSettleElapsed = @ + TickMs])
    /\ UNCHANGED budget

NextCalibration ==
    \/ ActiveJoystickChanged \/ Start \/ AxisValueChanged \/ StrayAxisValueChanged
    \/ NextButtonClicked
    \/ SkipButtonClicked \/ CancelButtonClicked \/ SettleElapse

\* an outbound command has returned r
Commanded(op, arg, r) ==
    /\ sent' = r.sent
    /\ emitted' = r.out
    /\ last' = [op |-> op, msg |-> NoMessage, p |-> arg]
    /\ UNCHANGED <<hbAny, uas, now, statusTimeoutAt, imgClean, imgHist, hbSeen, hbRegular,
                   budget, timeCall, cal>>

\* UAS::startCalibration is called
StartCalibration ==
    /\ \E calType \in StartCalibrationTypes :
          Commanded("startCalibration", calType, startCalibration(uas, calType))
    /\ UNCHANGED <<manual, txHist>>

\* UAS::stopCalibration is called
StopCalibration ==
    /\ Commanded("stopCalibration", "", stopCalibration(uas))
    /\ UNCHANGED <<manual, txHist>>

\* the inputs of the joystick: an axis centred, deflected or not a number,
\* a button released or pressed
Setpoints ==
    {[roll |-> r, pitch |-> 0, yaw |-> 0, thrust |-> 0, buttons |-> b] :
        r \in {0, 500, NaN}, b \in {0, 1}}

\* UAS::setExternalControlSetpoint is called, as the joystick thread does
\* at its rate
SetExternalControlSetpoint ==
    \E in \in Setpoints :
        LET r == setExternalControlSetpoint(uas, manual, in)
        IN  /\ Commanded("setExternalControlSetpoint", in, r)
            /\ manual' = r.s
            /\ txHist' = IF ~uas.vehicle THEN txHist
                         ELSE IF r.sent # <<>>
                         THEN [quiet |-> 0, changed |-> inputsChanged(manual, in)]
                         ELSE [quiet |-> txHist.quiet + 1, changed |-> FALSE]

NextCommand == StartCalibration \/ StopCalibration \/ SetExternalControlSetpoint

Next == NextHeartbeat \/ NextImage \/ NextDispatch \/ NextTime \/ NextGate \/ NextBattery
           \/ NextPosition \/ NextUnknown \/ NextOrientation \/ NextCalibration
           \/ NextCommand \/ NextAck \/ NextOwnership

\* heartbeats, the ground clock and the periodic check
SpecHeartbeat == Init /\ [][NextHeartbeat]_vars

\* the image transfer
SpecImage == Init /\ [][NextImage]_vars

\* a bounded number of state messages from several components and vehicles
SpecDispatch == Init /\ [][NextDispatch]_vars

\* the time reconciliation called with raw timestamps as the ground clock advances
SpecTime == Init /\ [][NextTime]_vars

\* state messages handled with the attitude-stamped mode switched on at some point
SpecGate == Init /\ [][NextGate]_vars

\* system status messages as the ground clock advances by long intervals
SpecBattery == Init /\ [][NextBattery]_vars

\* position messages of the bound vehicle
SpecPosition == Init /\ [][NextPosition]_vars

\* messages of unknown and ignored types among heartbeats
SpecUnknown == Init /\ [][NextUnknown]_vars

\* attitude, attitude quaternion and VFR HUD messages
SpecOrientation == Init /\ [][NextOrientation]_vars

\* the calibration of a joystick
SpecCalibration == Init /\ [][NextCalibration]_vars

\* the ownership table over the message types of the wire
SpecOwnership == InitOwnership /\ [][NextOwnership]_vars

\* command acknowledgements and attitude targets
SpecAck == Init /\ [][NextAck]_vars

\* the outbound commands, for an object with or without a vehicle
SpecCommand == InitCommand /\ [][NextCommand]_vars

Spec == Init /\ [][Next]_vars

(***************************************************************************)
(* Properties.                                                             *)
(***************************************************************************)
\* the last step handled a message of type msgid
Handled(l, msgid) == l.op = "receiveMessage" /\ l.msg.msgid = msgid

\* the fields of the object other than the component list and the ownership table
VehicleFields == DOMAIN UASInit(0) \ {"components", "componentID", "componentMulti"}

VehicleState(u) == [f \in VehicleFields |-> u[f]]

\* C1: once a component owns a state message type, a message of that type
\* from another component of the bound vehicle sets the multi-source flag of
\* the type and leaves every field of the vehicle state unchanged, and a
\* message from the owner is processed.
C1_ConflictLeavesStateUnchanged ==
    [][\A id \in StateMsgIds :
          (Handled(last', id) /\ last'.msg.sysid = BoundSysId /\ uas.componentID[id] # -1)
          => IF last'.msg.compid # uas.componentID[id]
             THEN uas'.componentMulti[id] /\ VehicleState(uas') = VehicleState(uas)
             ELSE emitted' # <<>>]_vars

C3_ForeignMessageChangesNothing ==
    [][(last'.op = "receiveMessage" /\ last'.msg.sysid # BoundSysId)
          => (uas' = uas /\ emitted' = <<>>)]_vars

\* C4: while the accepted heartbeats are at most HeartbeatPeriodMs apart (the
\* first at most that long after construction) the connection is not lost
\* and no check has announced the loss or emitted the connection-lost
\* notification.
C4_NoLossWithRegularHeartbeats ==
    hbRegular => /\ ~uas.connectionLost
                 /\ Count(emitted, "say: link lost") = 0
                 /\ Count(emitted, "heartbeatTimeout(true)") = 0

\* the periodic check has run at least twice under regular heartbeats
C4_Witness ==
    /\ hbRegular /\ hbSeen
    /\ last.op = "updateState"
    /\ now >= StartTime + 2 * StatusTimeoutMs

\* C5 as stated: the connection-lost notification is emitted once, by the
\* check that finds the connection lost, and by no later check while the
\* connection remains lost.
C5_LostNotifiedOnce ==
    [][last'.op = "updateState"
          => Count(emitted', "heartbeatTimeout(true)")
                = (IF ~uas.connectionLost /\ uas'.connectionLost THEN 1 ELSE 0)]_vars

\* C5: the connection-lost flag is set and the loss announced once, by the
\* check that first sees the elapsed time above the timeout; the
\* connection-lost notification is emitted by that check and by every later
\* check that still sees the elapsed time above the timeout.
C5_LostNotifiedEveryCheck ==
    [][last'.op = "updateState"
          => /\ Count(emitted', "say: link lost")
                   = (IF ~uas.connectionLost /\ uas'.connectionLost THEN 1 ELSE 0)
             /\ Count(emitted', "heartbeatTimeout(true)")
                   = (IF uas'.connectionLost
                         /\ heartbeatInterval(uas, now) > timeoutIntervalHeartbeat
                      THEN 1 ELSE 0)
             /\ (~uas.connectionLost /\ uas'.connectionLost)
                   => heartbeatInterval(uas, now) > timeoutIntervalHeartbeat]_vars

\* a check has found the connection still lost and has notified again
C5_Witness ==
    /\ last.op = "updateState"
    /\ uas.connectionLost
    /\ emitted = <<"heartbeatTimeout(true)">>

\* C6: a check that finds the connection lost and the elapsed time below the
\* timeout clears the flag and emits one recovery notification; no step
\* emits a recovery notification while the connection is not lost.
C6_RecoveryNotifiedOnce ==
    [][/\ (last'.op = "updateState" /\ uas.connectionLost
           /\ heartbeatInterval(uas, now) < timeoutIntervalHeartbeat)
             => (~uas'.connectionLost /\ Count(emitted', "heartbeatTimeout(false)") = 1)
       /\ ~uas.connectionLost => Count(emitted', "heartbeatTimeout(false)") = 0
       /\ Count(emitted', "heartbeatTimeout(false)") <= 1]_vars

\* a check has found the heartbeat back and has notified the recovery
C6_Witness ==
    /\ last.op = "updateState"
    /\ hbSeen
    /\ ~uas.connectionLost
    /\ Count(emitted, "heartbeatTimeout(false)") = 1

\* the chunks h were delivered in order: sequence numbers 0, 1, 2, ...
InOrder(h) == \A i \in 1..Len(h) : h[i].seqnr = i - 1

\* the handshake values fit: n packets of payload pl carry size bytes
Consistent(size, n, pl) == (n - 1) * pl < size /\ size <= n * pl

\* C7: when the chunks 0..N-1 of a transfer (announced with fitting N, P and
\* S, on an empty buffer) have been handled in order, the image-ready
\* notification is emitted once, with the N-th chunk, every payload byte
\* is at offset sequenceNumber * P + i, the buffer holds exactly S bytes and
\* the transfer state is reset.
C7_InOrderTransfer ==
    /\ Count(emitted, "imageReady") <= 1
    /\ uas.imagePackets > 0 => uas.imagePacketsArrived < uas.imagePackets
    /\ (/\ Count(emitted, "imageReady") = 1
        /\ imgClean /\ InOrder(imgHist)
        /\ Consistent(uas.imageSize, Len(imgHist), uas.imagePayload))
          => /\ Len(uas.imageRecBuffer) = uas.imageSize
             /\ \A i \in 1..Len(imgHist) : \A k \in 1..uas.imagePayload :
                   (i - 1) * uas.imagePayload + k <= uas.imageSize
                      => uas.imageRecBuffer[(i - 1) * uas.imagePayload + k]
                            = imgHist[i].data[k]
             /\ uas.imagePackets = 0 /\ uas.imagePacketsArrived = 0

\* the buffer after the chunks q..n-1 of image v are written into buf, once each
RECURSIVE OnceEach(_, _, _, _, _, _)
OnceEach(buf, v, q, n, pl, size) ==
    IF q >= n THEN buf
    ELSE OnceEach(WritePayload(buf, q * pl, ImageData(v, q), 0, pl, size),
                  v, q + 1, n, pl, size)

\* C8: when image-ready fires for a transfer (started on an empty buffer)
\* whose deliveries were chunks of one image with sequence numbers below N,
\* some possibly delivered twice, the buffer is the one that results from
\* delivering every chunk 0..N-1 of that image exactly once.
C8_DuplicateIdempotent ==
    \A v \in Images :
        (/\ Count(emitted, "imageReady") = 1
         /\ imgClean
         /\ \A i \in 1..Len(imgHist) :
               /\ imgHist[i].seqnr < Len(imgHist)
               /\ imgHist[i].data = ImageData(v, imgHist[i].seqnr))
          => uas.imageRecBuffer
                = OnceEach(<<>>, v, 0, Len(imgHist), uas.imagePayload, uas.imageSize)

\* C9: after a handshake the received-packet count is 0 and the receive
\* buffer is empty.
C9_HandshakeClearsBuffer ==
    Handled(last, MAVLINK_MSG_ID_DATA_TRANSMISSION_HANDSHAKE)
       => (uas.imagePacketsArrived = 0 /\ uas.imageRecBuffer = <<>>)

\* C10: a data chunk writes no byte at an offset outside 0..S-1 and does not
\* make the buffer grow beyond S bytes.
C10_WritesWithinSize ==
    [][Handled(last', MAVLINK_MSG_ID_ENCAPSULATED_DATA)
          => /\ Len(uas'.imageRecBuffer) <= Max(Len(uas.imageRecBuffer), uas.imageSize)
             /\ \A k \in 1..Len(uas'.imageRecBuffer) :
                   (k > Len(uas.imageRecBuffer) \/ uas'.imageRecBuffer[k] # uas.imageRecBuffer[k])
                      => k - 1 < uas.imageSize]_vars

\* C11: a data chunk handled while no transfer is in progress leaves the
\* receive buffer and every other field of the vehicle state as they were,
\* but for the received-packet count, which is 0 afterwards, emits no
\* image-ready notification and is not counted as a chunk of any transfer,
\* so that what follows is handled as if the chunk had never arrived.
C11_StrayChunkDropped ==
    [][(Handled(last', MAVLINK_MSG_ID_ENCAPSULATED_DATA) /\ uas.imagePackets = 0)
          => /\ VehicleState(uas')
                   = [VehicleState(uas) EXCEPT !["imagePacketsArrived"] = 0]
             /\ uas'.imageRecBuffer = uas.imageRecBuffer
             /\ Count(emitted', "imageReady") = 0
             /\ imgHist' = imgHist /\ imgClean' = imgClean]_vars

\* a chunk has been dropped after a transfer completed, the buffer still
\* holding the image
C11_Witness ==
    /\ Handled(last, MAVLINK_MSG_ID_ENCAPSULATED_DATA)
    /\ uas.imagePackets = 0
    /\ emitted = <<>>
    /\ uas.imageRecBuffer # <<>>

\* the raw timestamp is an onboard-relative one: not 0, below the threshold
OnboardRelative(time) == 0 < time /\ time < FortyYearsUsec

\* C12: when getUnixTime is called with an onboard-relative raw timestamp
\* that is not below the one of the call of getUnixTime before it, itself
\* onboard-relative, the value returned is not below the one returned before.
C12_MonotoneOnNonDecreasingInput ==
    [][(/\ last'.op = "getUnixTime"
        /\ OnboardRelative(timeCall.uTime) /\ OnboardRelative(timeCall'.time)
        /\ timeCall.uTime <= timeCall'.time)
          => timeCall'.ret >= timeCall.uRet]_vars

\* a later, larger sample has been stamped with the offset that an earlier
\* sample established at construction time
C12_Witness ==
    /\ last.op = "getUnixTime"
    /\ timeCall.time = 30000000
    /\ uas.onboardTimeOffset = StartTime - 5000
    /\ now > StartTime
    /\ timeCall.ret = 30000 + StartTime - 5000

\* C13: a call of getUnixTime with an onboard-relative raw timestamp changes
\* the offset only when no offset is established or the timestamp is more
\* than BackwardSlack below the last accepted raw value, and in that case
\* sets it to the ground clock minus the timestamp in milliseconds.
C13_OffsetRecomputedOnBackwardJumpOnly ==
    [][(last'.op = "getUnixTime" /\ OnboardRelative(timeCall'.time))
          => /\ uas'.onboardTimeOffset # uas.onboardTimeOffset
                   => \/ uas.onboardTimeOffset = 0
                      \/ timeCall'.time + BackwardSlack < uas.lastNonNullTime
             /\ (uas.onboardTimeOffset = 0
                 \/ timeCall'.time + BackwardSlack < uas.lastNonNullTime)
                   => uas'.onboardTimeOffset = now - (timeCall'.time \div 1000)]_vars

\* C14: with the offset established, a call of getUnixTime with an
\* onboard-relative raw timestamp returns a value that is not more than the
\* slack below the value the call of getUnixTime before it returned.
C14_NeverBackwardBeyondSlack ==
    [][(/\ last'.op = "getUnixTime"
        /\ uas.onboardTimeOffset # 0
        /\ OnboardRelative(timeCall.uTime) /\ OnboardRelative(timeCall'.time))
          => timeCall'.ret + BackwardSlack >= timeCall.uRet]_vars

\* C15: getUnixTime returns lastAttitude when attitudeStamped is set, and
\* the value computed from the raw timestamp when it is not.
C15_AttitudeStampedReturnsLastAttitude ==
    [][last'.op = "getUnixTime"
          => timeCall'.ret
                = IF uas.attitudeStamped THEN uas.lastAttitude
                  ELSE IF timeCall'.time = 0 THEN now
                  ELSE IF timeCall'.time < FortyYearsUsec
                       THEN (timeCall'.time \div 1000) + uas'.onboardTimeOffset
                       ELSE timeCall'.time \div 1000]_vars

C17_GateUntilFirstAttitude ==
    [][(/\ last'.op = "receiveMessage" /\ last'.msg.sysid = BoundSysId
        /\ uas.attitudeStamped)
          => IF uas.lastAttitude = 0 /\ last'.msg.msgid # MAVLINK_MSG_ID_ATTITUDE
             THEN uas' = uas /\ emitted' = <<>>
             ELSE uas'.componentID[last'.msg.msgid] # -1]_vars

\* the step emitted the low voltage alert
TickAlerted(out) == Count(out, "say: low voltage") > 0

\* C18: a low voltage alert is emitted only when more than the cooldown has
\* passed on the ground clock since the alert before it, whose time
\* lastVoltageWarning keeps; no message emits two alerts.
C18_TickAlertsApart ==
    [][/\ TickAlerted(emitted')
          => /\ groundTimeUsecs(now) - uas.lastVoltageWarning > VoltageWarningCooldownUsec
             /\ uas'.lastVoltageWarning = groundTimeUsecs(now)
             /\ Count(emitted', "say: low voltage") = 1
       /\ ~TickAlerted(emitted') => uas'.lastVoltageWarning = uas.lastVoltageWarning]_vars

\* a system status message that meets every other condition of the alert
\* has been handled within the cooldown of an earlier alert, without alert
C18_Witness ==
    /\ Handled(last, MAVLINK_MSG_ID_SYS_STATUS)
    /\ ~TickAlerted(emitted)
    /\ uas.lastVoltageWarning > 0
    /\ groundTimeUsecs(now) - uas.lastVoltageWarning = 2 * ElapseMs * 1000
    /\ tickWarn_noCooldown(uas, now)

\* C19 as stated: an alert fires only when the tick tracker has been above
\* the threshold since the alert before it (lastTickVoltageValue then holds
\* a value above tickVoltage).
C19_OneAlertPerCrossing ==
    [][TickAlerted(emitted') => uas.lastTickVoltageValue > uas.tickVoltage]_vars

\* C19: an alert fires only when the tick tracker is below the threshold and
\* more than 0.1 V away from lastTickVoltageValue, its value at the alert
\* before or the last time it was above the threshold; the alert stores the
\* tracker's value, so that a tracker that stays below the threshold alerts
\* again once it has moved by more than 0.1 V.
C19_AlertPerMovement ==
    [][/\ TickAlerted(emitted')
          => /\ uas'.tickLowpassVoltage < uas.tickVoltage
             /\ Abs(uas.lastTickVoltageValue - uas'.tickLowpassVoltage) > 100
             /\ uas'.lastTickVoltageValue = uas'.tickLowpassVoltage
       /\ (~TickAlerted(emitted') /\ uas'.tickLowpassVoltage <= uas.tickVoltage)
          => uas'.lastTickVoltageValue = uas.lastTickVoltageValue]_vars

\* an alert has fired for a tracker that three low samples in a row have
\* taken further down, the sample before having alerted as well
C19_Witness ==
    /\ TickAlerted(emitted)
    /\ uas.tickLowpassVoltage < 9000
    /\ now >= StartTime + 3 * ElapseMs

\* C20: the low-battery latch is cleared only by a system status message
\* that leaves a charge level at or above the warn level, and the low
\* battery announcement is made by the step that sets the latch and by no
\* other.
C20_LatchUntilRecovered ==
    [][/\ (uas.lowBattAlarm /\ ~uas'.lowBattAlarm)
          => /\ Handled(last', MAVLINK_MSG_ID_SYS_STATUS)
             /\ uas'.chargeLevel >= uas'.warnLevelPercent
       /\ Count(emitted', "say: low battery")
             = (IF ~uas.lowBattAlarm /\ uas'.lowBattAlarm THEN 1 ELSE 0)]_vars

\* C21: the stored remaining charge is within 0..100 or the sentinel -1.
C21_ChargeLevelInRange ==
    uas.chargeLevel = -1 \/ (0 <= uas.chargeLevel /\ uas.chargeLevel <= 100)

\* a message of the bound vehicle of the given type has been handled
HandledOwn(l, msgid) == Handled(l, msgid) /\ l.msg.sysid = BoundSysId

\* C22: a global position message sets the estimator flag, which nothing
\* resets; with the flag set a raw GPS message changes none of latitude,
\* longitude, WGS84 altitude and ground speed, whatever its fix type; every
\* raw GPS message stores its satellite count.
C22_RawGpsIgnoredOnceEstimatorActive ==
    [][/\ HandledOwn(last', MAVLINK_MSG_ID_GLOBAL_POSITION_INT) => uas'.globalEstimatorActive
       /\ uas.globalEstimatorActive => uas'.globalEstimatorActive
       /\ HandledOwn(last', MAVLINK_MSG_ID_GPS_RAW_INT)
          => /\ uas'.satelliteCount = last'.p.satellites_visible
             /\ uas.globalEstimatorActive
                => /\ uas'.latitude = uas.latitude
                   /\ uas'.longitude = uas.longitude
                   /\ uas'.altitudeWGS84 = uas.altitudeWGS84
                   /\ uas'.groundSpeed = uas.groundSpeed]_vars

\* a raw GPS message with a 3D fix has been handled after a global position
\* message: its position is kept apart from the stored one and its
\* satellite count is stored
C22_Witness ==
    /\ HandledOwn(last, MAVLINK_MSG_ID_GPS_RAW_INT)
    /\ last.p.fix_type > 2
    /\ uas.globalEstimatorActive
    /\ uas.latitude_gps = last.p.lat
    /\ uas.latitude # last.p.lat
    /\ uas.groundSpeed # last.p.vel
    /\ uas.satelliteCount = last.p.satellites_visible

\* a velocity that is NaN, infinite or beyond the threshold of the raw GPS case
Unreasonable(v) == v = NaN \/ v = Infinity \/ v >= 100000000

\* C23: a local position, global position or raw GPS message whose velocity
\* is unreasonable leaves the stored velocity and ground speed unchanged
\* and emits the diagnostic text message.
C23_UnreasonableVelocityRejected ==
    [][(\/ /\ \/ HandledOwn(last', MAVLINK_MSG_ID_LOCAL_POSITION_NED)
              \/ HandledOwn(last', MAVLINK_MSG_ID_GLOBAL_POSITION_INT)
           /\ \E v \in {last'.p.vx, last'.p.vy, last'.p.vz} : Unreasonable(v)
        \/ /\ HandledOwn(last', MAVLINK_MSG_ID_GPS_RAW_INT)
           /\ Unreasonable(last'.p.vel))
          => /\ uas'.speedX = uas.speedX
             /\ uas'.speedY = uas.speedY
             /\ uas'.speedZ = uas.speedZ
             /\ uas'.groundSpeed = uas.groundSpeed
             /\ Count(emitted', "textMessageReceived") > 0]_vars

\* C24: the list of unknown types holds no type twice and only types that
\* no case of the switch names; a message of an unknown type changes
\* nothing of the vehicle state but that list and emits nothing, a message
\* of an ignored type leaves the list alone, and heartbeats are handled
\* whatever the list holds.
C24_UnknownTypesRecordedOnce ==
    [][/\ \A i, j \in 1..Len(uas'.unknownPackets) :
              i # j => uas'.unknownPackets[i] # uas'.unknownPackets[j]
       /\ \A i \in 1..Len(uas'.unknownPackets) : uas'.unknownPackets[i] \in UnknownMsgIds
       /\ (last'.op = "receiveMessage" /\ last'.msg.msgid \in UnknownMsgIds)
          => /\ emitted' = <<>>
             /\ [VehicleState(uas') EXCEPT !.unknownPackets = <<>>]
                   = [VehicleState(uas) EXCEPT !.unknownPackets = <<>>]
             /\ \E i \in 1..Len(uas'.unknownPackets) :
                    uas'.unknownPackets[i] = last'.msg.msgid
       /\ (last'.op = "receiveMessage" /\ last'.msg.msgid \notin UnknownMsgIds)
          => uas'.unknownPackets = uas.unknownPackets
       /\ Handled(last', MAVLINK_MSG_ID_HEARTBEAT)
          => /\ Count(emitted', "heartbeat") = 1
             /\ uas'.status = last'.p.system_status]_vars

\* a message of an unknown type has arrived from a second component, the
\* type being on the list once, next to the other unknown type
C24_Witness ==
    /\ last.op = "receiveMessage"
    /\ last.msg.msgid \in UnknownMsgIds
    /\ uas.componentMulti[last.msg.msgid]
    /\ Len(uas.unknownPackets) = 2

\* an angle in (-180, 180] degrees, the model's (-pi, pi]
Normalised(angle) == -180 < angle /\ angle <= 180

\* C25: the stored roll, pitch and yaw each lie in (-pi, pi], and the angle
\* normalisation maps every angle into that range and leaves a normalised
\* angle as it is.
C25_AnglesNormalised ==
    /\ Normalised(uas.roll) /\ Normalised(uas.pitch) /\ Normalised(uas.yaw)
    /\ \A a \in Angles \cup Headings :
          /\ Normalised(limitAngleToPMPI(a))
          /\ limitAngleToPMPI(limitAngleToPMPI(a)) = limitAngleToPMPI(a)
          /\ Normalised(a) => limitAngleToPMPI(a) = a

\* an attitude message with angles outside the range has been handled, and
\* the angle one and a half turns off is stored as half a turn
C25_Witness ==
    /\ HandledOwn(last, MAVLINK_MSG_ID_ATTITUDE)
    /\ ~Normalised(last.p.roll)
    /\ last.p.yaw = 540
    /\ uas.yaw = 180
    /\ uas.attitudeKnown

\* C26: a step of the calibration keeps the state or enters the state that
\* follows it in calStates, or is a cancel, which leaves every state for
\* calStateAxisWait.
C26_StatesInOrder ==
    [][/\ \/ cal'.calState = cal.calState
          \/ cal'.calState = cal.calState + 1
          \/ last'.op = "cancelButtonClicked"
       /\ cal'.calState \in calStateAxisWait..calStateSave
       /\ cancelButtonClicked(cal').calState = calStateAxisWait
       /\ last'.op = "cancelButtonClicked" => cal'.calState = calStateAxisWait]_vars

\* the calibration has gone through every state and has been written
C26_Witness ==
    /\ cal.calState = calStateSave
    /\ cal.written
    /\ \A f \in Functions : cal.rgFunctionAxisMapping[f] # axisMax

\* C27: with fewer axes than axisMinimum no start, sample or button leaves
\* calStateAxisWait, and the state is left only with axisMinimum axes or more.
C27_WaitsForAxes ==
    [][/\ (cal.calState = calStateAxisWait /\ cal.axisCount < axisMinimum
              /\ last'.op \in {"start", "axisValueChanged", "nextButtonClicked",
                               "skipButtonClicked"})
          => cal'.calState = calStateAxisWait
       /\ (cal.calState = calStateAxisWait /\ cal'.calState # calStateAxisWait)
          => cal'.axisCount >= axisMinimum]_vars

\* a start has been refused for a joystick with one axis too few, after
\* samples of its axes
C27_Witness ==
    /\ last.op = "start"
    /\ cal.calState = calStateAxisWait
    /\ cal.axisCount = axisMinimum - 1
    /\ \E a \in Axes : cal.axisRawValue[a] # calCenterPoint

\* the step completes the detection of the current function
Completes(c, d) ==
    \/ d.calState = c.calState /\ d.calStateCurrentAxis # c.calStateCurrentAxis
    \/ d.calState = c.calState + 1

\* C28: in calStateIdentify the current function is completed only by a
\* sample of an axis that had moved beyond calMoveDelta from its saved
\* value and has then stayed within the settle band for
\* stickDetectSettleMSecs; the step maps the function to that axis, moves on
\* by one function and forgets the detection, so that the next function
\* needs a move and a settle of its own.
C28_IdentifyByMoveThenSettle ==
    [][(cal.calState = calStateIdentify /\ Completes(cal, cal'))
          => /\ last'.op = "axisValueChanged"
             /\ cal.axisCount = axisMax
             /\ cal.stickDetectAxis # axisMax
             /\ Abs(cal.axisValueSave[cal.stickDetectAxis] - cal.stickDetectInitialValue)
                   > calMoveDelta
             /\ cal.stickDetectSettleStarted
             /\ cal.stickDetectSettleElapsed >= stickDetectSettleMSecs
             /\ Abs(cal.stickDetectValue - cal'.axisRawValue[cal.stickDetectAxis])
                   <= calSettleDelta
             /\ cal'.rgFunctionAxisMapping[cal.calStateCurrentAxis] = cal.stickDetectAxis
             /\ IF cal.calStateCurrentAxis + 1 < maxFunction
                THEN /\ cal'.calState = calStateIdentify
                     /\ cal'.calStateCurrentAxis = cal.calStateCurrentAxis + 1
                ELSE cal'.calState = calStateMinMax
             /\ cal'.stickDetectAxis = axisMax
             /\ ~cal'.stickDetectSettleStarted]_vars

\* the first function has been identified by a sample, and the second one
\* is waiting for a move
C28_Witness ==
    /\ last.op = "axisValueChanged"
    /\ cal.calState = calStateIdentify
    /\ cal.calStateCurrentAxis = 1
    /\ cal.rgFunctionAxisMapping[0] # axisMax
    /\ cal.stickDetectAxis = axisMax

\* C29: the mapping from functions to axes and the per-axis table agree:
\* the axis of a function carries that function and the function of an axis
\* is mapped to that axis, so that no axis has two functions and no
\* function two axes.
C29_MappingInjective ==
    /\ \A f \in Functions :
          cal.rgFunctionAxisMapping[f] # axisMax
              => cal.rgAxisInfo[cal.rgFunctionAxisMapping[f]].function = f
    /\ \A a \in Axes :
          cal.rgAxisInfo[a].function # maxFunction
              => cal.rgFunctionAxisMapping[cal.rgAxisInfo[a].function] = a
    /\ \A f, g \in Functions :
          (f # g /\ cal.rgFunctionAxisMapping[f] # axisMax)
              => cal.rgFunctionAxisMapping[f] # cal.rgFunctionAxisMapping[g]

\* the axis of the first function has been assigned to the second one: the
\* first function is left without an axis
C29_Witness ==
    /\ cal.calState \in {calStateIdentify, calStateDetectInversion}
    /\ cal.calStateCurrentAxis = 2
    /\ cal.rgFunctionAxisMapping[0] = axisMax
    /\ cal.rgFunctionAxisMapping[1] = 0
    /\ cal.rgAxisInfo[0].function = 1

\* C30: calStateMinMax is left for the next state only when every mapped
\* axis has a spread above calMinDelta; otherwise the next button changes
\* nothing; the minimum of an axis never exceeds its maximum.
C30_MinMaxNeedsSpread ==
    [][/\ (cal.calState = calStateMinMax /\ cal'.calState = calStateCenterThrottle)
          => spreadSufficient(cal)
       /\ (cal.calState = calStateMinMax /\ ~spreadSufficient(cal)
              /\ last'.op = "nextButtonClicked")
          => cal' = cal
       /\ \A a \in Axes : cal'.rgAxisInfo[a].axisMin <= cal'.rgAxisInfo[a].axisMax]_vars

\* the next button has been refused in calStateMinMax: one mapped axis has
\* the spread, another has not
C30_Witness ==
    /\ last.op = "nextButtonClicked"
    /\ cal.calState = calStateMinMax
    /\ ~spreadSufficient(cal)
    /\ \E a \in Axes :
          /\ cal.rgAxisInfo[a].function # maxFunction
          /\ cal.rgAxisInfo[a].axisMax - cal.rgAxisInfo[a].axisMin > calMinDelta

\* the conditions of a save: every function has an axis, no two functions
\* share one, every mapped axis has the spread and the center point in its
\* range
Saveable(c) ==
    /\ \A f \in Functions : c.rgFunctionAxisMapping[f] # axisMax
    /\ \A f, g \in Functions : f # g => c.rgFunctionAxisMapping[f] # c.rgFunctionAxisMapping[g]
    /\ \A f \in Functions :
          LET a == c.rgFunctionAxisMapping[f]
          IN  a # axisMax
                  => /\ c.rgAxisInfo[a].axisMax - c.rgAxisInfo[a].axisMin > calMinDelta
                     /\ c.rgAxisInfo[a].axisMin <= calCenterPoint
                     /\ calCenterPoint <= c.rgAxisInfo[a].axisMax

C32_CancelRestoresSnapshot ==
    [][/\ (last'.op = "start" /\ cal'.calState # calStateAxisWait)
          => cal'.snapshot = Calibration(cal)
       /\ (cal.calState # calStateAxisWait) => cal'.snapshot = cal.snapshot
       /\ (last'.op = "cancelButtonClicked" /\ cal.calState # calStateAxisWait)
          => /\ Calibration(cal') = cal.snapshot
             /\ cal'.written = cal.written
             /\ cal'.calState = calStateAxisWait]_vars

\* a calibration that had changed the mapping, a reversed flag, a minimum
\* and a trim has been cancelled, and the stored values are back
C32_Witness ==
    /\ last.op = "cancelButtonClicked"
    /\ cal.calState = calStateAxisWait
    /\ ~cal.written
    /\ Calibration(cal) = StoredCalibration(cal.axisCount)
    /\ cal.rgAxisInfo[2].reversed
    /\ cal.rgAxisInfo[0].axisTrim = 10

\* C33: without a vehicle, startCalibration (of every type) and
\* stopCalibration hand no message to the vehicle, emit no signal and leave
\* the object and the statics as they are.
C33_NoVehicleNoOp ==
    [][(last'.op \in {"startCalibration", "stopCalibration"} /\ ~uas.vehicle)
          => /\ sent' = <<>>
             /\ emitted' = <<>>
             /\ uas' = uas
             /\ manual' = manual]_vars

\* startCalibration has returned for an object without a vehicle
C33_Witness ==
    /\ last.op = "startCalibration"
    /\ ~uas.vehicle
    /\ sent = <<>>

\* C36: a call of setExternalControlSetpoint with inputs that differ from
\* the ones last transmitted transmits, and so does the call after it; after
\* these two, while the inputs stay as transmitted, every fifth call
\* transmits: four calls without a message, then one with.
C36_OneInFive ==
    [][(last'.op = "setExternalControlSetpoint" /\ uas.vehicle)
          => /\ inputsChanged(manual, last'.p) => sent' # <<>>
             /\ (~inputsChanged(manual, last'.p) /\ txHist.changed) => sent' # <<>>
             /\ (~inputsChanged(manual, last'.p) /\ ~txHist.changed)
                   => (sent' # <<>> <=> txHist.quiet = 4)]_vars

\* the signals that carry the id of the sending component
TaggedSignals == {"attitudeChanged(compid)", "localPositionChanged(compid)"}

\* C34: a message of a state message type from a component of the bound
\* vehicle that does not own the type emits a signal that carries the id of
\* the component.
C34_ConflictStillNotifies ==
    [][\A id \in StateMsgIds :
          (/\ HandledOwn(last', id)
           /\ accepted(uas, last'.msg)
           /\ wrongComponent(preferImu2(uas.componentID, last'.msg), last'.msg))
             => \E i \in 1..Len(emitted') : emitted'[i] \in TaggedSignals]_vars

\* C35: an attitude message whose raw timestamp is more than BackwardSlack
\* below the last accepted raw value makes the offset be recomputed from
\* the ground clock and the timestamp.
C35_AttitudeRecoversFromClockReset ==
    [][(/\ HandledOwn(last', MAVLINK_MSG_ID_ATTITUDE)
        /\ accepted(uas, last'.msg)
        /\ last'.p.time_boot_ms # 0
        /\ last'.p.time_boot_ms < FortyYearsUsec
        /\ uas.onboardTimeOffset # 0
        /\ uas.lastNonNullTime >= BackwardSlack
        /\ last'.p.time_boot_ms < uas.lastNonNullTime - BackwardSlack)
          => uas'.onboardTimeOffset = now - (last'.p.time_boot_ms \div 1000)]_vars

\* C37: while the heartbeats of the bound vehicle that are handled, from
\* whichever of its components, are at most HeartbeatPeriodMs apart (the
\* first at most that long after construction), the connection is not lost
\* and no check announces the loss.
C37_NoLossWithHeartbeatsOfAnyComponent ==
    hbAny.regular => /\ ~uas.connectionLost
                     /\ Count(emitted, "say: link lost") = 0

\* C38: a command acknowledgement emits at most the text message of its
\* result: no attitude and thrust setpoint signal and no value signal; and
\* it leaves the vehicle state, the time reconciliation included, as it is.
C38_AckEmitsOnlyItsText ==
    [][(HandledOwn(last', MAVLINK_MSG_ID_COMMAND_ACK) /\ accepted(uas, last'.msg))
          => /\ Count(emitted', "attitudeThrustSetPointChanged") = 0
             /\ Count(emitted', "valueChanged") = 0
             /\ Len(emitted') = Count(emitted', "textMessageReceived")
             /\ Len(emitted') <= 1
             /\ VehicleState(uas') = VehicleState(uas)]_vars

\* an attitude or attitude quaternion message of the component that owns
\* its type has just been handled
OwnerAttitudeHandled(l, u, v) ==
    /\ HandledOwn(l, MAVLINK_MSG_ID_ATTITUDE) \/ HandledOwn(l, MAVLINK_MSG_ID_ATTITUDE_QUATERNION)
    /\ accepted(u, l.msg)
    /\ v.componentID[l.msg.msgid] = l.msg.compid

\* C39: attitudeKnown is set by, and only by, an attitude or attitude
\* quaternion message of the owning component, and it is never cleared;
\* while it is set a VFR_HUD message leaves the yaw alone, and while it is
\* clear every VFR_HUD message stores its normalised heading as the yaw.
C39_HeadingUntilAttitudeKnown ==
    [][/\ OwnerAttitudeHandled(last', uas, uas') => uas'.attitudeKnown
       /\ uas.attitudeKnown => uas'.attitudeKnown
       /\ (~uas.attitudeKnown /\ uas'.attitudeKnown) => OwnerAttitudeHandled(last', uas, uas')
       /\ (HandledOwn(last', MAVLINK_MSG_ID_VFR_HUD) /\ accepted(uas, last'.msg))
             => IF uas.attitudeKnown
                THEN uas'.yaw = uas.yaw
                ELSE uas'.yaw = limitAngleToPMPI(last'.p.heading)]_vars

\* C39 witness: a VFR_HUD message handled after the attitude became known,
\* its heading not the yaw
C39_Witness ==
    /\ HandledOwn(last, MAVLINK_MSG_ID_VFR_HUD)
    /\ uas.attitudeKnown
    /\ uas.yaw # limitAngleToPMPI(last.p.heading)
    /\ Count(emitted, "attitudeChanged") = 0

\* C40: the constructed object holds no owner and a cleared multi flag
\* for the type of whatever message arrives first, so that the message
\* makes its sender the owner of the type and raises no conflict.
C40_FirstMessageOwnsItsType ==
    [][(last.op = "construct" /\ HandledOwn(last', last'.msg.msgid) /\ accepted(uas, last'.msg))
          => /\ uas.componentID[last'.msg.msgid] = -1
             /\ ~uas.componentMulti[last'.msg.msgid]
             /\ uas'.componentID[last'.msg.msgid] = last'.msg.compid
             /\ ~uas'.componentMulti[last'.msg.msgid]]_vars

====
